---- MODULE Spec2Model ----
(***************************************************************************)
(* Retrieval-and-augmentation decision core of the enterprise RAG system.  *)
(*                                                                         *)
(* Conventions of the model                                                *)
(*  - Scores, similarities and confidences are integers in percent         *)
(*    (0.9 is 90); a division that Python does in floating point is kept   *)
(*    exact by cross-multiplying or by rounding a quotient explicitly.     *)
(*  - TLA+ strings are ASCII, so Chinese literals of the source are        *)
(*    written in pinyin; the comment next to each gives the original.      *)
(*  - A query is the set of words it contains: every test the code makes   *)
(*    on a query is a substring test (`keyword in query`, re.search).      *)
(***************************************************************************)
EXTENDS Integers, Sequences, FiniteSets, TLC

VARIABLES
    request,      \* arguments of the current analyze_search_need call
    analysis,     \* the dict analyze_search_need returns
    quality,      \* the dict _assess_local_info_quality returned in that call
    dpc,          \* "idle" | "returned": position of the decision call
    response_text,   \* the generator output given to _parse_response
    scenario_rule,   \* display name of the ScenarioRule given to it ("" is None)
    parsed,          \* the dict _parse_response returns
    ppc,             \* "idle" | "returned": position of the parse call
    pq_config,       \* QwenRAGProcessor: model, web_search_enabled
    pq_pc,           \* position of process_query
    pq_args,         \* its arguments and the scenario rule it resolved
    pq_local_docs,   \* local_docs
    pq_filtered_docs,    \* filtered_local_docs
    pq_search_analysis,  \* search_analysis
    pq_web_info,     \* web_search_analysis
    pq_web_docs,     \* len(web_docs)
    pq_context,      \* the assembled context
    pq_llm,          \* _call_llm: calls issued, model of the next call, text
    pq_trace,        \* stages that failed, calls of web_searcher.search
    pq_result,       \* what process_query returns
    corpus,          \* QwenVectorizer.collection: the documents it holds
    retr_request,    \* arguments of search_by_company_name, outcome of its calls
    retr_result,     \* what search_by_company_name hands to its caller
    retr_pc,         \* "idle" | "returned": position of the retrieval call
    fus_request,     \* candidate list, query and top_k given to the fusion steps
    fus_result,      \* the lists _merge_and_dedup and _rerank_and_dedup return
    fus_again,       \* what the same step returns when given its own output
    fus_pc,          \* "idle" | "returned" | "repeated": position of the fusion call
    ws_cache,        \* QwenWebSearcher.cache
    ws_request,      \* arguments of the current QwenWebSearcher.search call
    ws_result,       \* what that call hands to its caller
    ws_trace,        \* what happened inside that call
    ws_pc,           \* "idle" | "returned": position of the search call
    parts_name,      \* _extract_company_name_parts: the company_name given
    parts_list,      \* _extract_company_name_parts: the list returned
    parts_pc,        \* "idle" | "returned": position of that call
    ie_query,        \* LLMExtractor.extract_company_and_scenario: the query
    ie_response,     \* what dashscope.Generation.call did for that call
    ie_result,       \* what the call hands to its caller, or that it raised
    ie_pc            \* "idle" | "returned": position of that call

decideVars == <<request, analysis, quality, dpc>>
parseVars == <<response_text, scenario_rule, parsed, ppc>>
pipeVars ==
    <<pq_config, pq_pc, pq_args, pq_local_docs, pq_filtered_docs,
      pq_search_analysis, pq_web_info, pq_web_docs, pq_context, pq_llm,
      pq_trace, pq_result>>
retrieveVars == <<corpus, retr_request, retr_result, retr_pc>>
fusionVars == <<fus_request, fus_result, fus_again, fus_pc>>
searchVars == <<ws_cache, ws_request, ws_result, ws_trace, ws_pc>>
partsVars == <<parts_name, parts_list, parts_pc>>
extractVars == <<ie_query, ie_response, ie_result, ie_pc>>
vars ==
    <<decideVars, parseVars, pipeVars, retrieveVars, fusionVars, searchVars,
      partsVars, extractVars>>

\* what each component leaves alone
exceptDecide == <<parseVars, pipeVars, retrieveVars, fusionVars, searchVars,
    partsVars, extractVars>>
exceptParse == <<decideVars, pipeVars, retrieveVars, fusionVars, searchVars,
    partsVars, extractVars>>
exceptPipe == <<decideVars, parseVars, retrieveVars, fusionVars, searchVars,
    partsVars, extractVars>>
exceptRetrieve == <<decideVars, parseVars, pipeVars, fusionVars, searchVars,
    partsVars, extractVars>>
exceptFusion == <<decideVars, parseVars, pipeVars, retrieveVars, searchVars,
    partsVars, extractVars>>
exceptSearch == <<decideVars, parseVars, pipeVars, retrieveVars, fusionVars,
    partsVars, extractVars>>
exceptParts ==
    <<decideVars, parseVars, pipeVars, retrieveVars, fusionVars, searchVars,
      extractVars>>
exceptExtract ==
    <<decideVars, parseVars, pipeVars, retrieveVars, fusionVars, searchVars,
      partsVars>>

(***************************************************************************)
(* Bounds of the model                                                     *)
(***************************************************************************)
MaxDocs == 2

(***************************************************************************)
(* Small helpers                                                           *)
(***************************************************************************)
Max(a, b) == IF a >= b THEN a ELSE b
Min(a, b) == IF a <= b THEN a ELSE b

RECURSIVE SumSeq(_)
SumSeq(s) == IF s = <<>> THEN 0 ELSE Head(s) + SumSeq(Tail(s))

\* round(a / b) for a >= 0, b > 0, to the nearest integer
RoundDiv(a, b) == (2 * a + b) \div (2 * b)

\* all sequences over S of length 0..n
SeqsUpTo(S, n) == UNION {[1..k -> S] : k \in 0..n}

\* the elements of sequence s that satisfy Test, in order
Range(s) == {s[i] : i \in 1..Len(s)}

(***************************************************************************)
(* QwenWebCompleter.__init__ : configuration and trigger tables            *)
(***************************************************************************)
min_local_docs == 2
min_avg_similarity == 50
max_web_results == 3

\* search_triggers["mandatory"]["keywords"]:
\*   最新 新闻 近期 动态 2024 2023 今年 本月 本周
MandatoryKeywords ==
    <<"zuixin", "xinwen", "jinqi", "dongtai", "2024", "2023", "jinnian",
      "benyue", "benzhou">>
\* search_triggers["mandatory"]["scenarios"]: 舆情分析 行业分析
MandatoryScenarios == {"yuqing_fenxi", "hangye_fenxi"}
MandatoryConfidence == 90

\* search_triggers["recommended"]["keywords"]:
\*   趋势 发展 前景 预测 变化 更新 政策 监管
RecommendedKeywords ==
    <<"qushi", "fazhan", "qianjing", "yuce", "bianhua", "gengxin", "zhengce",
      "jianguan">>
RecommendedConfidence == 70

\* search_triggers["optional"]["keywords"]: 概况 简介 基本 一般 概述 历史
OptionalKeywords ==
    <<"gaikuang", "jianjie", "jiben", "yiban", "gaishu", "lishi">>
OptionalConfidence == 50

\* search_triggers in dict (insertion) order
search_triggers ==
    << [priority |-> "mandatory", keywords |-> MandatoryKeywords,
        confidence |-> MandatoryConfidence],
       [priority |-> "recommended", keywords |-> RecommendedKeywords,
        confidence |-> RecommendedConfidence],
       [priority |-> "optional", keywords |-> OptionalKeywords,
        confidence |-> OptionalConfidence] >>

\* info_gap_indicators: (pattern, confidence boost).  A pattern is named by a
\* phrase that matches it: 缺乏数据, 信息不足, 没有找到, 无法获取, 想要了解,
\* 查看详情.  (需要.*最新 contains the mandatory keyword 最新, which
\* _analyze_query_features finds first, so its phrase is not a word here.)
info_gap_indicators ==
    << [phrase |-> "quefa_shuju", boost |-> 30],
       [phrase |-> "xinxi_buzu", boost |-> 30],
       [phrase |-> "meiyou_zhaodao", boost |-> 20],
       [phrase |-> "wufa_huoqu", boost |-> 20],
       [phrase |-> "xiangyao_liaojie", boost |-> 10],
       [phrase |-> "chakan_xiangqing", boost |-> 20] >>

\* _contains_time_keywords.time_keywords:
\*   最新 近期 今年 本月 当前 最近 2024 2023 2022
TimeKeywords ==
    <<"zuixin", "jinqi", "jinnian", "benyue", "dangqian", "zuijin", "2024",
      "2023", "2022">>

\* _extract_query_keywords.stop_words (the two-character ones; the regex keeps
\* only runs of two or more Chinese characters):
\*   什么 怎么 如何 为什么 哪些 哪个 分析 查询 请问
StopWords ==
    {"shenme", "zenme", "ruhe", "weishenme", "naxie", "nage", "fenxi",
     "chaxun", "qingwen"}

\* words made of digits: not matched by [一-龥]{2,}
DigitWords == {"2024", "2023", "2022"}

(***************************************************************************)
(* QwenWebCompleter: pure helpers                                          *)
(***************************************************************************)
\* the first element of a keyword list the query contains, 0 if none
FirstMatch(keywords, query) ==
    IF \E i \in 1..Len(keywords) : keywords[i] \in query
    THEN CHOOSE i \in 1..Len(keywords) :
            /\ keywords[i] \in query
            /\ \A j \in 1..(i - 1) : keywords[j] \notin query
    ELSE 0

_is_mandatory_search(query, scenario) ==
    \/ FirstMatch(MandatoryKeywords, query) # 0
    \/ scenario \in MandatoryScenarios

_contains_time_keywords(query) == FirstMatch(TimeKeywords, query) # 0

\* number of timestamps counted as recent for one document: upload_time and
\* publish_date are tested one after the other and each adds one
RecentCount(doc) ==
    (IF doc.upload_recent THEN 1 ELSE 0) + (IF doc.publish_recent THEN 1 ELSE 0)

\* _assess_time_relevance, in percent: recent_docs / len(docs)
_assess_time_relevance(docs, query) ==
    IF docs = <<>> THEN 0
    ELSE IF ~_contains_time_keywords(query) THEN 50
    ELSE (100 * SumSeq([i \in 1..Len(docs) |-> RecentCount(docs[i])]))
            \div Len(docs)

_extract_query_keywords(query) == (query \ StopWords) \ DigitWords

\* _assess_content_coverage as the pair <<covered, total>>; the neutral 0.5
\* (no keywords) is <<1, 2>>, no documents is <<0, 1>>
_assess_content_coverage(docs, query) ==
    LET keywords == _extract_query_keywords(query)
        covered == {k \in keywords :
                       \E i \in 1..Len(docs) : k \in docs[i].content}
    IN  IF docs = <<>> THEN <<0, 1>>
        ELSE IF keywords = {} THEN <<1, 2>>
        ELSE <<Cardinality(covered), Cardinality(keywords)>>

\* the assessment returned for an empty document list (lines 174-180)
NoDocsAssessment_NotUpdated ==
    [is_sufficient |-> TRUE, confidence |-> 0, deficiencies |-> <<>>,
     doc_count |-> 0, sim_sum |-> 0, time_relevance |-> 0]
NoDocsAssessment ==
    [is_sufficient |-> FALSE, confidence |-> 80,
     deficiencies |-> <<"no_docs">>, doc_count |-> 0,
     sim_sum |-> 0, time_relevance |-> 0]

\* rule 1, document count (line 188)
CountRule_OffByOne(n) == n < min_local_docs - 1
CountRule(n) == n < min_local_docs

\* _assess_local_info_quality.  avg_similarity is kept as the pair sim_sum /
\* doc_count; deficiencies are named count, similarity, time, coverage (the
\* substrings 数量, 相似度, 时间, 覆盖 that _build_optimized_search_query
\* looks for) and no_docs (本地库中未找到相关文档, which has none of them).
_assess_local_info_quality(local_docs, query) ==
    LET n == Len(local_docs)
        sim_sum == SumSeq([i \in 1..n |-> local_docs[i].similarity])
        time_relevance == _assess_time_relevance(local_docs, query)
        coverage == _assess_content_coverage(local_docs, query)
        rule1 == CountRule(n)
        rule2 == sim_sum < min_avg_similarity * n
        rule3 == time_relevance < 30 /\ _contains_time_keywords(query)
        rule4 == 2 * coverage[1] < coverage[2]
        fired == rule1 \/ rule2 \/ rule3 \/ rule4
        total == (IF rule1 THEN 30 ELSE 0) + (IF rule2 THEN 30 ELSE 0)
                 + (IF rule3 THEN 40 ELSE 0) + (IF rule4 THEN 20 ELSE 0)
    IN  IF n = 0
        THEN NoDocsAssessment
        ELSE [is_sufficient |-> ~fired,
              confidence |-> IF fired THEN Min(total, 90) ELSE total,
              deficiencies |->
                  (IF rule1 THEN <<"count">> ELSE <<>>)
                  \o (IF rule2 THEN <<"similarity">> ELSE <<>>)
                  \o (IF rule3 THEN <<"time">> ELSE <<>>)
                  \o (IF rule4 THEN <<"coverage">> ELSE <<>>),
              doc_count |-> n, sim_sum |-> sim_sum,
              time_relevance |-> time_relevance]

\* the first priority tier (in dict order) one of whose keywords is in the
\* query, 0 if none
FirstTier(query) ==
    IF \E t \in 1..Len(search_triggers) :
           FirstMatch(search_triggers[t].keywords, query) # 0
    THEN CHOOSE t \in 1..Len(search_triggers) :
            /\ FirstMatch(search_triggers[t].keywords, query) # 0
            /\ \A u \in 1..(t - 1) :
                   FirstMatch(search_triggers[u].keywords, query) = 0
    ELSE 0

\* the first information-gap pattern the query matches, 0 if none
FirstGap(query) ==
    IF \E g \in 1..Len(info_gap_indicators) :
           info_gap_indicators[g].phrase \in query
    THEN CHOOSE g \in 1..Len(info_gap_indicators) :
            /\ info_gap_indicators[g].phrase \in query
            /\ \A h \in 1..(g - 1) : info_gap_indicators[h].phrase \notin query
    ELSE 0

_analyze_query_features(query) ==
    LET t == FirstTier(query)
        g == FirstGap(query)
    IN  IF t # 0
        THEN [requires_web |-> TRUE,
              confidence |-> search_triggers[t].confidence,
              reason |-> search_triggers[t].priority]
        ELSE IF g # 0
        THEN [requires_web |-> TRUE,
              confidence |-> 50 + info_gap_indicators[g].boost,
              reason |-> "info_gap"]
        ELSE [requires_web |-> FALSE, confidence |-> 0, reason |-> ""]

\* _build_optimized_search_query.scenario_keywords:
\*   撤否企业分析, 长期辅导企业分析, 上下游企业分析
SearchScenarioKeywords ==
    {"chefou_qiye_fenxi", "changqi_fudao_qiye_fenxi", "shangxiayou_qiye_fenxi"}

\* the parts one deficiency adds to the search query; "core" stands for
\* _extract_core_query(original_query), which is never empty for a query
\* that has text
RECURSIVE DeficiencyParts(_)
DeficiencyParts(deficiencies) ==
    IF deficiencies = <<>> THEN <<>>
    ELSE LET d == Head(deficiencies)
             here == IF d = "time" THEN <<"zuixin", "2024nian", "jinqi">>
                     ELSE IF d \in {"count", "similarity"} THEN <<"xiangxi">>
                     ELSE IF d = "coverage" THEN <<"core">>
                     ELSE <<>>
         IN  here \o DeficiencyParts(Tail(deficiencies))

\* the optimized query as the sequence of its space-joined parts
_build_optimized_search_query(company_name, scenario, local_quality) ==
    LET p1 == IF company_name # "" THEN <<company_name>> ELSE <<>>
        p2 == p1 \o DeficiencyParts(local_quality.deficiencies)
        p3 == IF scenario \in SearchScenarioKeywords
              THEN Append(p2, "kw_" \o scenario) ELSE p2
    IN  IF "core" \in Range(p3) THEN p3 ELSE Append(p3, "core")

\* _estimate_expected_results; the len(query) >= 10 increment is taken for
\* a query of five or more words (each word has two characters at least)
_estimate_expected_results(query, company_name, scenario) ==
    LET base_count == 3
            + (IF company_name # "" THEN 1 ELSE 0)
            + (IF scenario \in {"yuqing_fenxi", "hangye_fenxi", "caiwu_fenxi"}
               THEN 1 ELSE 0)
            + (IF Cardinality(query) >= 5 THEN 1 ELSE 0)
    IN  Min(base_count, max_web_results)

\* _adjust_final_confidence, in percent.  The value before rounding is the
\* fraction a / b with b = 5 * doc_count:
\*   current + (1 - min(avg_similarity, 0.7)) * 0.2
\*     = (current * 5n + 100n - min(sim_sum, 70n)) / 5n   percent
_adjust_final_confidence(current_confidence, local_quality, query_analysis) ==
    LET n == Max(local_quality.doc_count, 1)
        b == 5 * n
        a0 == current_confidence * b
        a1 == IF ~local_quality.is_sufficient
              THEN a0 + 100 * n - Min(local_quality.sim_sum, 70 * n)
              ELSE a0
        a2 == IF query_analysis.requires_web
              THEN Max(a1, query_analysis.confidence * b)
              ELSE a1
        a3 == Min(Max(a2, 0), 100 * b)
    IN  RoundDiv(a3, b)

\* the analysis dict analyze_search_need starts from (lines 70-78)
InitialAnalysis ==
    [should_search |-> FALSE, search_query |-> <<>>, confidence |-> 0,
     reasons |-> <<>>, search_type |-> "none", expected_results |-> 0]

\* the value of `quality` while _assess_local_info_quality has not been called
NoQuality ==
    [is_sufficient |-> TRUE, confidence |-> 0, deficiencies |-> <<>>,
     doc_count |-> 0, sim_sum |-> 0, time_relevance |-> 0]

\* step 1 of analyze_search_need: the user preference
AfterUserPreference(user_preference) ==
    IF user_preference = "always"
    THEN [InitialAnalysis EXCEPT !.should_search = TRUE,
                                 !.search_type = "user_requested",
                                 !.confidence = 100,
                                 !.reasons = <<"user_requested">>]
    ELSE IF user_preference = "never"
    THEN [InitialAnalysis EXCEPT !.should_search = FALSE,
                                 !.search_type = "user_disabled",
                                 !.confidence = 0,
                                 !.reasons = <<"user_disabled">>]
    ELSE InitialAnalysis

\* user_preference == "never" returns at once; every other preference falls
\* through to the rules below
ReturnsAfterUserPreference_NoReturn(user_preference) == FALSE
ReturnsAfterUserPreference(user_preference) == user_preference = "never"

\* step 2: the mandatory trigger
AfterMandatory(a, query, scenario) ==
    IF _is_mandatory_search(query, scenario)
    THEN [a EXCEPT !.should_search = TRUE,
                   !.search_type = "mandatory",
                   !.confidence = MandatoryConfidence,
                   !.reasons = <<"mandatory">>]
    ELSE a

\* step 3: the local information quality
AfterLocalQuality(a, local_info_quality) ==
    IF ~local_info_quality.is_sufficient
    THEN [a EXCEPT !.should_search = TRUE,
                   !.search_type = "auto",
                   !.confidence = Max(a.confidence,
                                      local_info_quality.confidence),
                   !.reasons = a.reasons \o local_info_quality.deficiencies]
    ELSE a

\* step 4: the query features
AfterQueryFeatures_KeepsDecision(a, query_analysis) ==
    IF query_analysis.requires_web
    THEN [a EXCEPT !.confidence = Max(a.confidence, query_analysis.confidence),
                   !.reasons = Append(a.reasons, query_analysis.reason)]
    ELSE a
AfterQueryFeatures(a, query_analysis) ==
    IF query_analysis.requires_web
    THEN [a EXCEPT !.should_search = TRUE,
                   !.search_type = IF a.search_type = "none" THEN "auto"
                                   ELSE a.search_type,
                   !.confidence = Max(a.confidence, query_analysis.confidence),
                   !.reasons = Append(a.reasons, query_analysis.reason)]
    ELSE a

\* step 5: the search query and the expected number of results
AfterBuildQuery(a, query, company_name, scenario, local_info_quality) ==
    IF a.should_search
    THEN LET expected ==
                 _estimate_expected_results(query, company_name, scenario)
         IN  [a EXCEPT !.search_query =
                           _build_optimized_search_query(
                               company_name, scenario, local_info_quality),
                       !.expected_results =
                           IF a.confidence > 80
                           THEN Min(expected + 2, max_web_results)
                           ELSE expected]
    ELSE a

\* analyze_search_need: the returned analysis, the quality assessment it made
\* and the steps it went through
analyze_search_need(query, local_docs, scenario, company_name, user_preference) ==
    LET a1 == AfterUserPreference(user_preference)
        a2 == AfterMandatory(a1, query, scenario)
        local_info_quality == _assess_local_info_quality(local_docs, query)
        a3 == AfterLocalQuality(a2, local_info_quality)
        query_analysis == _analyze_query_features(query)
        a4 == AfterQueryFeatures(a3, query_analysis)
        a5 == AfterBuildQuery(a4, query, company_name, scenario,
                              local_info_quality)
        a6 == [a5 EXCEPT !.confidence =
                   _adjust_final_confidence(a5.confidence, local_info_quality,
                                            query_analysis)]
    IN  IF ReturnsAfterUserPreference(user_preference)
        THEN [analysis |-> a1, quality |-> NoQuality,
              steps |-> <<"user_preference">>]
        ELSE [analysis |-> a6, quality |-> local_info_quality,
              steps |-> <<"user_preference", "mandatory", "local_quality",
                          "query_features">>
                        \o (IF a4.should_search THEN <<"build_query">>
                            ELSE <<>>)
                        \o <<"final_confidence">>]

(***************************************************************************)
(* Inputs of the decision calls                                            *)
(***************************************************************************)
\* 最新 (mandatory and time keyword), 当前 (time keyword only),
\* 趋势 (recommended keyword), 缺乏数据 (information-gap phrase)
QueryWords == {"zuixin", "dangqian", "qushi", "quefa_shuju"}
Queries == SUBSET QueryWords

\* None is "", 舆情分析, 撤否企业分析
Scenarios == {"", "yuqing_fenxi", "chefou_qiye_fenxi"}
\* None is "", 欣强电子
Companies == {"", "xinqiang_dianzi"}
UserPreferences == {"auto", "always", "never"}

Similarities == {20, 90}
Documents ==
    {[similarity |-> s, upload_recent |-> t[1], publish_recent |-> t[2],
      content |-> c] :
        s \in Similarities,
        t \in {<<FALSE, FALSE>>, <<TRUE, FALSE>>, <<TRUE, TRUE>>},
        c \in {{}, {"qushi", "dangqian"}}}
DocLists == SeqsUpTo(Documents, MaxDocs)

NoRequest ==
    [query |-> {}, local_docs |-> <<>>, scenario |-> "", company_name |-> "",
     user_preference |-> "auto", steps |-> <<>>]

(***************************************************************************)
(* The decision service: one analyze_search_need call at a time            *)
(***************************************************************************)
DecideIdle ==
    /\ request = NoRequest
    /\ analysis = InitialAnalysis
    /\ quality = NoQuality
    /\ dpc = "idle"

AnalyzeSearchNeed ==
    /\ dpc = "idle"
    /\ \E q \in Queries, docs \in DocLists, sc \in Scenarios,
          co \in Companies, up \in UserPreferences :
          LET r == analyze_search_need(q, docs, sc, co, up)
          IN  /\ request' = [query |-> q, local_docs |-> docs,
                             scenario |-> sc, company_name |-> co,
                             user_preference |-> up, steps |-> r.steps]
              /\ analysis' = r.analysis
              /\ quality' = r.quality
    /\ dpc' = "returned"
    /\ UNCHANGED exceptDecide

DecideReturn ==
    /\ dpc = "returned"
    /\ request' = NoRequest
    /\ analysis' = InitialAnalysis
    /\ quality' = NoQuality
    /\ dpc' = "idle"
    /\ UNCHANGED exceptDecide

DecideNext == AnalyzeSearchNeed \/ DecideReturn

(***************************************************************************)
(* QwenRAGProcessor._parse_response and its fallback tiers                 *)
(*                                                                         *)
(* A generator output is a sequence of lexical pieces: an opening brace, a *)
(* closing brace, a run of prose, or one or more well-formed JSON members  *)
(* ("key": value, separators included).  A response dict is the set of its *)
(* top-level keys, the tier that built it and what its summary carries.    *)
(***************************************************************************)
MaxTextLen == 4

RequiredKeys ==
    {"summary", "detailed_analysis", "key_findings", "risk_assessment",
     "recommendations"}

\* the top-level keys a piece contributes when it is a member of an object
MemberKeys(piece) ==
    IF piece = "m_summary" THEN {"summary"}
    ELSE IF piece = "m_analysis_to_recommendations"
    THEN {"detailed_analysis", "key_findings", "risk_assessment",
          "recommendations"}
    ELSE IF piece = "m_extra" THEN {"extra"}
    ELSE {}

Members == {"m_summary", "m_analysis_to_recommendations", "m_extra"}
Pieces == {"{", "}", "prose"} \cup Members

\* a generator output: a string of pieces, or a value that is not a string
\* (message.content is None)
ResponseTexts ==
    {[is_str |-> TRUE, pieces |-> t] : t \in SeqsUpTo(Pieces, MaxTextLen)}
    \cup {[is_str |-> FALSE, pieces |-> <<>>]}

\* 撤否企业分析, 长期辅导企业分析, 上下游企业分析; "" is scenario_rule = None
ScenarioRules ==
    {"", "chefou_qiye_fenxi", "changqi_fudao_qiye_fenxi",
     "shangxiayou_qiye_fenxi"}

\* re.search(r'\{[\s\S]*}', response_text): the span from the first "{" to
\* the last "}" after it, <<>> when there is no match
JsonMatch(pieces) ==
    LET opens == {i \in 1..Len(pieces) : pieces[i] = "{"}
        closes == {i \in 1..Len(pieces) : pieces[i] = "}"}
    IN  IF opens = {} \/ closes = {} THEN <<>>
        ELSE LET first == CHOOSE i \in opens : \A j \in opens : i <= j
                 last == CHOOSE i \in closes : \A j \in closes : i >= j
             IN  IF first < last THEN SubSeq(pieces, first, last) ELSE <<>>

\* json.loads(json_str) succeeds: an object is a "{", members, a "}"
JsonLoadsOk(span) ==
    /\ Len(span) >= 2
    /\ span[1] = "{"
    /\ span[Len(span)] = "}"
    /\ \A i \in 2..(Len(span) - 1) : span[i] \in Members

\* the keys of json.loads(json_str)
JsonLoadsKeys(span) ==
    UNION {MemberKeys(span[i]) : i \in 2..(Len(span) - 1)}

\* the scenario-specific field of a scenario rule, {} for None
ScenarioField(rule) ==
    IF rule = "chefou_qiye_fenxi" THEN {"withdrawal_analysis"}
    ELSE IF rule = "changqi_fudao_qiye_fenxi" THEN {"tutoring_analysis"}
    ELSE IF rule = "shangxiayou_qiye_fenxi" THEN {"relationship_analysis"}
    ELSE {}

\* the strict tier: the parsed object as it is, plus the scenario field
ParsedJson(span, rule) ==
    LET keys == JsonLoadsKeys(span)
    IN  [tier |-> "json", keys |-> keys \cup ScenarioField(rule),
         summary |-> IF "summary" \in keys THEN "from_json" ELSE "absent"]

_parse_structured_response(text, rule) ==
    [tier |-> "structured", keys |-> RequiredKeys \cup ScenarioField(rule),
     summary |-> "text_prefix"]

_create_fallback_response(text, rule) ==
    [tier |-> "fallback",
     keys |-> RequiredKeys
              \cup (IF rule # "" THEN {"information_quality"} ELSE {}),
     summary |-> "text_prefix"]

_create_error_response ==
    [tier |-> "error", keys |-> RequiredKeys, summary |-> "error_text"]

_parse_response(text, rule) ==
    IF ~text.is_str
    THEN _create_error_response
    ELSE LET span == JsonMatch(text.pieces)
         IN  IF span = <<>>
             THEN _parse_structured_response(text, rule)
             ELSE IF JsonLoadsOk(span)
             THEN ParsedJson(span, rule)
             ELSE _create_fallback_response(text, rule)

NoText == [is_str |-> TRUE, pieces |-> <<>>]
NoParsed == [tier |-> "none", keys |-> {}, summary |-> "absent"]

ParseIdle ==
    /\ response_text = NoText
    /\ scenario_rule = ""
    /\ parsed = NoParsed
    /\ ppc = "idle"

ParseResponse ==
    /\ ppc = "idle"
    /\ \E text \in ResponseTexts, rule \in ScenarioRules :
          /\ response_text' = text
          /\ scenario_rule' = rule
          /\ parsed' = _parse_response(text, rule)
    /\ ppc' = "returned"
    /\ UNCHANGED exceptParse

ParseReturn ==
    /\ ppc = "returned"
    /\ response_text' = NoText
    /\ scenario_rule' = ""
    /\ parsed' = NoParsed
    /\ ppc' = "idle"
    /\ UNCHANGED exceptParse

ParseNext == ParseResponse \/ ParseReturn

(***************************************************************************)
(* QwenRAGProcessor.process_query: one request, stage by stage             *)
(***************************************************************************)
MaxWebDocs == 3
MaxPipeDocs == 4

similarity_threshold == 50

\* what process_query is called with, and how the processor was built
PipeQueries == {{}, {"zuixin"}, {"qushi"}}
PipeScenarios == {"", "chefou_qiye_fenxi", "yuqing_fenxi"}
Models == {"qwen-max", "qwen-turbo"}
PipeDocuments ==
    {[similarity |-> 20, upload_recent |-> FALSE, publish_recent |-> FALSE,
      content |-> {}],
     [similarity |-> 50, upload_recent |-> TRUE, publish_recent |-> FALSE,
      content |-> {"qushi"}],
     [similarity |-> 90, upload_recent |-> TRUE, publish_recent |-> FALSE,
      content |-> {"qushi"}]}
PipeDocLists == SeqsUpTo(PipeDocuments, MaxPipeDocs)

\* texts the generation collaborator answers with: prose, a complete JSON
\* object, a JSON object with other keys inside prose, braces that are not
\* JSON, a content that is not a string
GeneratorOutputs ==
    {[is_str |-> TRUE, pieces |-> <<"prose">>],
     [is_str |-> TRUE,
      pieces |-> <<"{", "m_summary", "m_analysis_to_recommendations", "}">>],
     [is_str |-> TRUE, pieces |-> <<"prose", "{", "m_extra", "}">>],
     [is_str |-> TRUE, pieces |-> <<"{", "prose", "}">>],
     [is_str |-> FALSE, pieces |-> <<>>]}

\* the text of an exception or of response.message: plain, or quoting the
\* JSON body of the failed request
ErrorMessages == {<<"prose">>, <<"prose", "{", "m_extra", "}">>}

\* ScenarioConfig.get_scenario_by_name: the rule whose display_name is the
\* name, None ("") when there is none
get_scenario_by_name(scenario_name) ==
    IF scenario_name \in {"chefou_qiye_fenxi", "changqi_fudao_qiye_fenxi",
                          "shangxiayou_qiye_fenxi"}
    THEN scenario_name ELSE ""

\* ScenarioConfig.get_scenario_rule: the rule of a scenario type, None ("")
\* for a type that has none
get_scenario_rule(scenario_type) ==
    IF scenario_type \in {"chefou_qiye_fenxi", "changqi_fudao_qiye_fenxi",
                          "shangxiayou_qiye_fenxi"}
    THEN scenario_type ELSE ""

\* ScenarioConfig.get_default_scenario: the rule of 撤否企业分析
get_default_scenario == "chefou_qiye_fenxi"

\* web_search_analysis as process_query initialises it (lines 1478-1485)
InitialWebSearchAnalysis ==
    [performed |-> FALSE, reason |-> "not_enabled", confidence |-> 0,
     query |-> <<>>, search_type |-> "none", results_count |-> 0]

\* web_search_analysis.update(...) after analyze_search_need (1497-1504)
WebSearchAnalysisOf(a) ==
    [performed |-> a.should_search,
     reason |-> IF a.reasons # <<>> THEN a.reasons[1] ELSE "not_triggered",
     confidence |-> a.confidence, query |-> a.search_query,
     search_type |-> a.search_type, results_count |-> 0]

\* step 3: the local documents whose similarity reaches the threshold
RECURSIVE FilterBySimilarity_Above(_, _)
FilterBySimilarity_Above(docs, threshold) ==
    IF docs = <<>> THEN <<>>
    ELSE (IF Head(docs).similarity > threshold THEN <<Head(docs)>> ELSE <<>>)
         \o FilterBySimilarity_Above(Tail(docs), threshold)
RECURSIVE FilterBySimilarity(_, _)
FilterBySimilarity(docs, threshold) ==
    IF docs = <<>> THEN <<>>
    ELSE (IF Head(docs).similarity >= threshold THEN <<Head(docs)>> ELSE <<>>)
         \o FilterBySimilarity(Tail(docs), threshold)

\* _build_scenario_context: the passage blocks of the context and which
\* closing directive it ends with
_build_scenario_context_NoLimit(local_docs, web_docs, performed) ==
    [local_blocks |-> Len(local_docs),
     web_blocks |-> web_docs,
     web_note |-> IF web_docs > 0 THEN "results"
                  ELSE IF performed THEN "no_valid_results"
                  ELSE "not_performed",
     zero_evidence |-> Len(local_docs) + web_docs = 0]
_build_scenario_context(local_docs, web_docs, performed) ==
    [local_blocks |-> Min(Len(local_docs), 3),
     web_blocks |-> Min(web_docs, 2),
     web_note |-> IF web_docs > 0 THEN "results"
                  ELSE IF performed THEN "no_valid_results"
                  ELSE "not_performed",
     zero_evidence |-> Len(local_docs) + web_docs = 0]

NoContext ==
    [local_blocks |-> 0, web_blocks |-> 0, web_note |-> "not_performed",
     zero_evidence |-> TRUE]

\* _enhance_response: the keys it adds to the parsed response
_enhance_response(response, rule) ==
    [response EXCEPT !.keys =
        response.keys \cup {"source_statistics", "analysis_timestamp"}
        \cup (IF rule # "" THEN {"scenario_info"} ELSE {})]

\* _build_comprehensive_result
_build_comprehensive_result(response, local_docs, web_docs, info, web_mode) ==
    [kind |-> "result", response |-> response,
     local_documents |-> Len(local_docs), web_results |-> web_docs,
     web_mode |-> web_mode, has_web_search_info |-> TRUE,
     web_search_info |-> info]

\* _build_error_result: the error envelope, with the error text in summary
_build_error_result ==
    [kind |-> "error", response |-> _create_error_response,
     local_documents |-> 0, web_results |-> 0, web_mode |-> "none",
     has_web_search_info |-> FALSE,
     web_search_info |-> InitialWebSearchAnalysis]

NoResult ==
    [kind |-> "none", response |-> NoParsed, local_documents |-> 0,
     web_results |-> 0, web_mode |-> "none", has_web_search_info |-> FALSE,
     web_search_info |-> InitialWebSearchAnalysis]

NoArgs ==
    [query |-> {}, scenario |-> "", company_code |-> "",
     use_web_data |-> "auto", scenario_rule |-> ""]

PipeIdle ==
    /\ pq_pc = "idle"
    /\ pq_args = NoArgs
    /\ pq_local_docs = <<>>
    /\ pq_filtered_docs = <<>>
    /\ pq_search_analysis = InitialAnalysis
    /\ pq_web_info = InitialWebSearchAnalysis
    /\ pq_web_docs = 0
    /\ pq_context = NoContext
    /\ pq_llm = [calls |-> 0, model |-> "", text |-> NoText]
    /\ pq_trace = [failed |-> {}, search_calls |-> 0, raised |-> FALSE]
    /\ pq_result = NoResult

\* process_query is called (lines 1417-1446); the scenario rule is looked
\* up by name when a scenario is given
ProcessQuery ==
    /\ pq_pc = "idle"
    /\ \E q \in PipeQueries, sc \in PipeScenarios, co \in Companies,
          mode \in UserPreferences :
          pq_args' = [query |-> q, scenario |-> sc, company_code |-> co,
                      use_web_data |-> mode,
                      scenario_rule |-> IF sc # ""
                                        THEN get_scenario_by_name(sc)
                                        ELSE ""]
    /\ pq_pc' = "retrieve"
    /\ UNCHANGED <<pq_local_docs, pq_filtered_docs, pq_search_analysis,
                   pq_web_info, pq_web_docs, pq_context, pq_llm, pq_trace,
                   pq_result, pq_config>>
    /\ UNCHANGED exceptPipe

\* 1. local retrieval (1448-1475): a failure is caught here and leaves
\* local_docs empty
LocalRetrieval ==
    /\ pq_pc = "retrieve"
    /\ \/ /\ \E docs \in PipeDocLists : pq_local_docs' = docs
          /\ UNCHANGED pq_trace
       \/ /\ pq_local_docs' = <<>>
          /\ pq_trace' = [pq_trace EXCEPT !.failed = @ \cup {"retrieval"}]
    /\ pq_pc' = "decide"
    /\ UNCHANGED <<pq_args, pq_filtered_docs, pq_search_analysis,
                   pq_web_info, pq_web_docs, pq_context, pq_llm, pq_result,
                   pq_config>>
    /\ UNCHANGED exceptPipe

\* a stage throws: control goes to the except clause of process_query
Throw(stage) ==
    /\ pq_trace' = [pq_trace EXCEPT !.failed = @ \cup {stage}]
    /\ pq_pc' = "except"

\* 2. search decision (1487-1504)
SearchDecision ==
    /\ pq_pc = "decide"
    /\ \/ /\ pq_config.web_search_enabled
          /\ LET a == analyze_search_need(
                          pq_args.query, pq_local_docs, pq_args.scenario,
                          pq_args.company_code, pq_args.use_web_data).analysis
             IN  /\ pq_search_analysis' = a
                 /\ pq_web_info' = WebSearchAnalysisOf(a)
                 /\ pq_pc' = IF a.should_search THEN "search" ELSE "filter"
          /\ UNCHANGED pq_trace
       \/ /\ ~pq_config.web_search_enabled
          /\ pq_pc' = "filter"
          /\ UNCHANGED <<pq_search_analysis, pq_web_info, pq_trace>>
       \/ /\ pq_config.web_search_enabled
          /\ Throw("decision")
          /\ UNCHANGED <<pq_search_analysis, pq_web_info>>
    /\ UNCHANGED <<pq_args, pq_local_docs, pq_filtered_docs, pq_web_docs,
                   pq_context, pq_llm, pq_result, pq_config>>
    /\ UNCHANGED exceptPipe

\* the external search (1506-1518): web_searcher.search is called once
ExternalSearch_Twice ==
    /\ pq_pc = "search"
    /\ \/ /\ \E n \in 0..MaxWebDocs :
                /\ pq_web_docs' = n
                /\ pq_web_info' = [pq_web_info EXCEPT !.results_count = n]
          /\ pq_trace' = [pq_trace EXCEPT !.search_calls = @ + 2]
          /\ pq_pc' = "filter"
       \/ /\ pq_trace' = [pq_trace EXCEPT !.search_calls = @ + 2,
                                          !.failed = @ \cup {"search"}]
          /\ pq_pc' = "except"
          /\ UNCHANGED <<pq_web_docs, pq_web_info>>
    /\ UNCHANGED <<pq_args, pq_local_docs, pq_filtered_docs,
                   pq_search_analysis, pq_context, pq_llm, pq_result,
                   pq_config>>
    /\ UNCHANGED exceptPipe
ExternalSearch ==
    /\ pq_pc = "search"
    /\ \/ /\ \E n \in 0..MaxWebDocs :
                /\ pq_web_docs' = n
                /\ pq_web_info' = [pq_web_info EXCEPT !.results_count = n]
          /\ pq_trace' = [pq_trace EXCEPT !.search_calls = @ + 1]
          /\ pq_pc' = "filter"
       \/ /\ pq_trace' = [pq_trace EXCEPT !.search_calls = @ + 1,
                                          !.failed = @ \cup {"search"}]
          /\ pq_pc' = "except"
          /\ UNCHANGED <<pq_web_docs, pq_web_info>>
    /\ UNCHANGED <<pq_args, pq_local_docs, pq_filtered_docs,
                   pq_search_analysis, pq_context, pq_llm, pq_result,
                   pq_config>>
    /\ UNCHANGED exceptPipe

\* 3.-5. filter the local documents, build the context and the prompt
\* (1524-1550)
AssembleContext ==
    /\ pq_pc = "filter"
    /\ \/ /\ LET kept == FilterBySimilarity(pq_local_docs,
                                            similarity_threshold)
             IN  /\ pq_filtered_docs' = kept
                 /\ pq_context' = _build_scenario_context(
                                      kept, pq_web_docs, pq_web_info.performed)
          /\ pq_llm' = [pq_llm EXCEPT !.model = pq_config.model]
          /\ pq_pc' = "generate"
          /\ UNCHANGED pq_trace
       \/ /\ Throw("context")
          /\ UNCHANGED <<pq_filtered_docs, pq_context, pq_llm>>
    /\ UNCHANGED <<pq_args, pq_local_docs, pq_search_analysis, pq_web_info,
                   pq_web_docs, pq_result, pq_config>>
    /\ UNCHANGED exceptPipe

\* 6. _call_llm (1951-1976): one dashscope.Generation.call.  Status 200
\* returns the content; another status calls again with qwen-turbo unless
\* the model already is qwen-turbo; an exception returns an error text
CallLLM ==
    /\ pq_pc = "generate"
    /\ \/ \E text \in GeneratorOutputs :
             /\ pq_llm' = [pq_llm EXCEPT !.calls = @ + 1, !.text = text]
             /\ pq_pc' = "parse"
             /\ UNCHANGED pq_trace
       \/ /\ pq_llm.model # "qwen-turbo"
          /\ pq_llm' = [pq_llm EXCEPT !.calls = @ + 1, !.model = "qwen-turbo"]
          /\ pq_pc' = "generate"
          /\ pq_trace' = [pq_trace EXCEPT !.failed = @ \cup {"generation"}]
       \/ /\ pq_llm.model = "qwen-turbo"
          /\ \E msg \in ErrorMessages :
                pq_llm' = [pq_llm EXCEPT
                              !.calls = @ + 1,
                              !.text = [is_str |-> TRUE,
                                        pieces |-> <<"prose">> \o msg]]
          /\ pq_pc' = "parse"
          /\ pq_trace' = [pq_trace EXCEPT !.failed = @ \cup {"generation"}]
       \/ /\ \E msg \in ErrorMessages :
                pq_llm' = [pq_llm EXCEPT
                              !.calls = @ + 1,
                              !.text = [is_str |-> TRUE,
                                        pieces |-> <<"prose">> \o msg]]
          /\ pq_pc' = "parse"
          /\ pq_trace' = [pq_trace EXCEPT !.failed = @ \cup {"generation"}]
    /\ UNCHANGED <<pq_args, pq_local_docs, pq_filtered_docs,
                   pq_search_analysis, pq_web_info, pq_web_docs, pq_context,
                   pq_result, pq_config>>
    /\ UNCHANGED exceptPipe

\* 7.-10. parse and enhance the response, build the result (1555-1584)
ParseAndBuildResult ==
    /\ pq_pc = "parse"
    /\ LET response == _enhance_response(
                           _parse_response(pq_llm.text, pq_args.scenario_rule),
                           pq_args.scenario_rule)
       IN  pq_result' = _build_comprehensive_result(
                            response, pq_filtered_docs, pq_web_docs,
                            pq_web_info, pq_args.use_web_data)
    /\ pq_trace' = IF _parse_response(pq_llm.text,
                                      pq_args.scenario_rule).tier = "error"
                   THEN [pq_trace EXCEPT !.failed = @ \cup {"parsing"}]
                   ELSE pq_trace
    /\ pq_pc' = "done"
    /\ UNCHANGED <<pq_args, pq_local_docs, pq_filtered_docs,
                   pq_search_analysis, pq_web_info, pq_web_docs, pq_context,
                   pq_llm, pq_config>>
    /\ UNCHANGED exceptPipe

\* the except clause of process_query (1588-1593)
HandleException ==
    /\ pq_pc = "except"
    /\ pq_result' = _build_error_result
    /\ pq_pc' = "done"
    /\ UNCHANGED <<pq_args, pq_local_docs, pq_filtered_docs,
                   pq_search_analysis, pq_web_info, pq_web_docs, pq_context,
                   pq_llm, pq_trace, pq_config>>
    /\ UNCHANGED exceptPipe

\* the caller takes the result; the next request starts from scratch
ProcessQueryReturn ==
    /\ pq_pc = "done"
    /\ pq_pc' = "idle"
    /\ pq_args' = NoArgs
    /\ pq_local_docs' = <<>>
    /\ pq_filtered_docs' = <<>>
    /\ pq_search_analysis' = InitialAnalysis
    /\ pq_web_info' = InitialWebSearchAnalysis
    /\ pq_web_docs' = 0
    /\ pq_context' = NoContext
    /\ pq_llm' = [calls |-> 0, model |-> "", text |-> NoText]
    /\ pq_trace' = [failed |-> {}, search_calls |-> 0, raised |-> FALSE]
    /\ pq_result' = NoResult
    /\ UNCHANGED pq_config
    /\ UNCHANGED exceptPipe

PipeNext ==
    \/ ProcessQuery
    \/ LocalRetrieval
    \/ SearchDecision
    \/ ExternalSearch
    \/ AssembleContext
    \/ CallLLM
    \/ ParseAndBuildResult
    \/ HandleException
    \/ ProcessQueryReturn

\* QwenRAGProcessor.__init__: the model and whether the web search
\* components came up
PipeConfigs ==
    [model : Models, web_search_enabled : BOOLEAN]

(***************************************************************************)
(* QwenVectorizer: strings                                                 *)
(*                                                                         *)
(* A string is the sequence of its characters (欣强电子 is                 *)
(* <<"xin", "qiang", "dian", "zi">>).  A document content is               *)
(* [lead, text, trail]: `lead` filler characters, the characters of        *)
(* `text`, then `trail` filler characters; the filler character occurs in  *)
(* no name.  Scores of the vectorizer are in units of 0.0001 (0.9 is 9000).*)
(***************************************************************************)
Filler == "."

StartsAt(x, s, i) == i + Len(x) - 1 <= Len(s) /\ SubSeq(s, i, i + Len(x) - 1) = x

\* x in s
IsSubstring(x, s) == x = <<>> \/ \E i \in 1..Len(s) : StartsAt(x, s, i)

\* s.find(x), 0-based, -1 if absent
Find(x, s) ==
    IF IsSubstring(x, s)
    THEN IF x = <<>> THEN 0
         ELSE (CHOOSE i \in 1..Len(s) :
                  StartsAt(x, s, i) /\ \A j \in 1..(i - 1) : ~StartsAt(x, s, j)) - 1
    ELSE -1

\* s.count(x) for a non-empty x: occurrences that do not overlap
RECURSIVE CountFrom(_, _, _)
CountFrom(x, s, i) ==
    IF i + Len(x) - 1 > Len(s) THEN 0
    ELSE IF StartsAt(x, s, i) THEN 1 + CountFrom(x, s, i + Len(x))
    ELSE CountFrom(x, s, i + 1)
Count(x, s) == CountFrom(x, s, 1)

EndsWith(s, suffix) ==
    Len(suffix) <= Len(s) /\ SubSeq(s, Len(s) - Len(suffix) + 1, Len(s)) = suffix

\* s.replace(x, "") for a non-empty x
RECURSIVE RemoveAll(_, _)
RemoveAll(x, s) ==
    IF s = <<>> THEN <<>>
    ELSE IF StartsAt(x, s, 1) THEN RemoveAll(x, SubSeq(s, Len(x) + 1, Len(s)))
    ELSE <<Head(s)>> \o RemoveAll(x, Tail(s))

\* 公司, 股份 and the other suffixes of _extract_company_name_parts, in the
\* order of the list: 公司 股份 集团 有限 科技 电子 有限公司 股份有限公司
GongSi == <<"gong", "si">>
GuFen == <<"gu", "fen">>
Suffixes ==
    << GongSi, GuFen, <<"ji", "tuan">>, <<"you", "xian">>, <<"ke", "ji">>,
       <<"dian", "zi">>, <<"you", "xian", "gong", "si">>,
       <<"gu", "fen", "you", "xian", "gong", "si">> >>

\* characters that are not Chinese: the words of an English name are
\* separated by " "
LatinChars == {"a", "b", "c", " "}
HasChinese(s) == \E i \in 1..Len(s) : s[i] \notin LatinChars

\* str.split(): the maximal runs without " "
RECURSIVE SplitWords(_, _)
SplitWords(s, word) ==
    IF s = <<>> THEN (IF word = <<>> THEN {} ELSE {word})
    ELSE IF Head(s) = " "
    THEN (IF word = <<>> THEN {} ELSE {word}) \cup SplitWords(Tail(s), <<>>)
    ELSE SplitWords(Tail(s), Append(word, Head(s)))

\* the name with the first suffix of the list it ends with cut off
StripSuffix(name) ==
    IF \E k \in 1..Len(Suffixes) : EndsWith(name, Suffixes[k])
    THEN LET k == CHOOSE k \in 1..Len(Suffixes) :
                     /\ EndsWith(name, Suffixes[k])
                     /\ \A j \in 1..(k - 1) : ~EndsWith(name, Suffixes[j])
         IN  SubSeq(name, 1, Len(name) - Len(Suffixes[k]))
    ELSE name

\* _extract_company_name_parts: the set the returned list is made from
_extract_company_name_parts(company_name) ==
    LET stem == StripSuffix(company_name)
        n == Len(stem)
        chinese == {SubSeq(stem, i, j - 1) :
                       <<i, j>> \in {p \in (1..n) \X (1..(n + 1)) :
                                        /\ p[2] >= p[1] + 2
                                        /\ p[2] <= Min(p[1] + 4, n + 1)}}
        english == {w \in SplitWords(stem, <<>>) : Len(w) >= 3}
    IN  (IF HasChinese(stem) THEN chinese ELSE english)
        \cup (IF Len(stem) >= 2 THEN {stem} ELSE {})

\* the characters of a content
ContentLen(c) == c.lead + Len(c.text) + c.trail
ContentChars(c) ==
    Range(c.text) \cup (IF c.lead + c.trail > 0 THEN {Filler} ELSE {})

\* x in content, content.find(x), content.count(x), for x without filler
InContent(x, c) == IF x = <<>> THEN TRUE ELSE IsSubstring(x, c.text)
FindInContent(x, c) ==
    IF x = <<>> THEN 0
    ELSE IF IsSubstring(x, c.text) THEN c.lead + Find(x, c.text) ELSE -1
CountInContent(x, c) == IF x = <<>> THEN ContentLen(c) + 1 ELSE Count(x, c.text)

\* content in s, for s without filler
ContentIn(c, s) == c.lead = 0 /\ c.trail = 0 /\ IsSubstring(c.text, s)

\* content[:200] if len(content) > 200 else content: what the fusion steps
\* hash or compare as the fingerprint
Prefix200(c) ==
    IF ContentLen(c) <= 200 THEN c
    ELSE LET lead == Min(c.lead, 200)
             text == SubSeq(c.text, 1, Min(Len(c.text), 200 - lead))
         IN  [lead |-> lead, text |-> text,
              trail |-> 200 - lead - Len(text)]

\* Jaccard similarity of two character sets, in units of 0.0001
Jaccard(set1, set2) ==
    IF set1 \cup set2 = {} THEN 0
    ELSE (10000 * Cardinality(set1 \cap set2)) \div Cardinality(set1 \cup set2)

\* _calculate_fuzzy_match(str1, str2) for two names
_calculate_fuzzy_match(str1, str2) ==
    IF str1 = <<>> \/ str2 = <<>> THEN 0
    ELSE IF IsSubstring(str1, str2) \/ IsSubstring(str2, str1) THEN 8000
    ELSE Jaccard(Range(str1), Range(str2))

\* _calculate_fuzzy_match(name, content)
FuzzyMatchContent(name, c) ==
    IF name = <<>> \/ ContentLen(c) = 0 THEN 0
    ELSE IF InContent(name, c) \/ ContentIn(c, name) THEN 8000
    ELSE Jaccard(Range(name), ContentChars(c))

\* _calculate_company_similarity(document, company_name)
_calculate_company_similarity(document, company_name) ==
    LET metadata_company == document.company
        c == document.content
        occurrences == CountInContent(company_name, c)
        first_pos == FindInContent(company_name, c)
        frequency_score == 800 * Min(occurrences, 5)
        position_score == IF first_pos < 100 THEN 6000
                          ELSE IF first_pos < 500 THEN 3000 ELSE 1200
    IN  IF metadata_company # <<>> /\ metadata_company = company_name
        THEN 10000
        ELSE IF /\ metadata_company # <<>>
                /\ \/ IsSubstring(company_name, metadata_company)
                   \/ IsSubstring(metadata_company, company_name)
        THEN 8000
        ELSE IF InContent(company_name, c)
        THEN frequency_score + position_score
        ELSE IF FuzzyMatchContent(company_name, c) > 6000 THEN 5000
        ELSE 0

(***************************************************************************)
(* QwenVectorizer: retrieval strategies and fusion                         *)
(*                                                                         *)
(* A stored document is [content, company, distance]: company is           *)
(* metadata.get("company", "") and distance the cosine distance of the     *)
(* document to the query of the request.  A candidate is the dict the      *)
(* strategies build; a key that is not set yet holds -1.  An exception is  *)
(* the value [raised |-> TRUE]: what a function hands to its caller is     *)
(* [raised, docs].  Equal strings have equal hashes and different strings  *)
(* are taken to have different hashes.                                     *)
(***************************************************************************)
Candidate(d, similarity, search_type) ==
    [content |-> d.content, company |-> d.company, similarity |-> similarity,
     search_type |-> search_type, company_relevance |-> -1,
     query_relevance |-> -1]

Returned(docs) == [raised |-> FALSE, docs |-> docs]
Raised == [raised |-> TRUE, docs |-> <<>>]

RECURSIVE Concat(_)
Concat(seqs) == IF seqs = <<>> THEN <<>> ELSE Head(seqs) \o Concat(Tail(seqs))

\* where=None and where={"company": {"$eq": company_name}}
NoFilter == [any |-> TRUE, company |-> <<>>]
CompanyEq(company_name) == [any |-> FALSE, company |-> company_name]

\* collection.query(n_results, where) when it answers: the first n_results
\* documents that pass the filter, nearest first
CollectionQuery(collection, n_results, where) ==
    LET Passes(d) == where.any \/ d.company = where.company
        matching == SelectSeq(collection, Passes)
    IN  SubSeq(matching, 1, Min(n_results, Len(matching)))

\* the loop of _semantic_search over an answer of the collection
SemanticHits(collection, top_k, filters) ==
    LET hits == CollectionQuery(collection, top_k, filters)
    IN  [i \in 1..Len(hits) |->
            Candidate(hits[i], 10000 - hits[i].distance, "semantic")]

_semantic_search_Propagates(collection, top_k, filters, outcome) ==
    IF outcome = "fail" THEN Raised
    ELSE Returned(SemanticHits(collection, top_k, filters))

\* _semantic_search: the except branch returns []
_semantic_search(collection, top_k, filters, outcome) ==
    IF outcome = "fail" THEN Returned(<<>>)
    ELSE Returned(SemanticHits(collection, top_k, filters))

\* exact_queries of _search_exact_company_name
exact_queries(company_name) ==
    << company_name, company_name \o GongSi, company_name \o GuFen,
       RemoveAll(GuFen, RemoveAll(GongSi, company_name)) >>

\* the queries that are sent: len(q) >= 2
ExactCalls(company_name) ==
    {k \in 1..4 : Len(exact_queries(company_name)[k]) >= 2}

\* the inner loop of _search_exact_company_name over one answer
ExactHits(collection, company_name, top_k) ==
    LET hits == CollectionQuery(collection, top_k, CompanyEq(company_name))
    IN  [i \in 1..Len(hits) |-> Candidate(hits[i], 9000, "exact_company")]

\* _search_exact_company_name: a failed query is skipped (continue)
_search_exact_company_name(collection, company_name, top_k, outcomes) ==
    Returned(Concat([k \in 1..4 |->
        IF k \in ExactCalls(company_name) /\ outcomes[k] = "ok"
        THEN ExactHits(collection, company_name, top_k)
        ELSE <<>>]))

\* the inner loop of _search_fuzzy_company_name over one answer
FuzzyHits(collection, part, top_k) ==
    LET hits == CollectionQuery(collection, top_k, NoFilter)
        Matches(d) == InContent(part, d.content) \/ IsSubstring(part, d.company)
        kept == SelectSeq(hits, Matches)
    IN  [i \in 1..Len(kept) |->
            Candidate(kept[i],
                      (7 * _calculate_fuzzy_match(part, kept[i].company)) \div 10,
                      "fuzzy_company")]

\* _search_fuzzy_company_name: name_parts is the list made from the set of
\* parts, in the order the set happens to be iterated
_search_fuzzy_company_name(collection, name_parts, top_k, outcomes) ==
    Returned(Concat([k \in 1..Len(name_parts) |->
        IF Len(name_parts[k]) >= 2 /\ outcomes[name_parts[k]] = "ok"
        THEN FuzzyHits(collection, name_parts[k], top_k)
        ELSE <<>>]))

\* hash(content[:200]) if len(content) > 200 else hash(content)
content_hash(r) == Prefix200(r.content)

\* _merge_and_dedup
RECURSIVE MergeFrom(_, _, _)
MergeFrom(results, i, seen_content_hashes) ==
    IF i > Len(results) THEN <<>>
    ELSE IF /\ ContentLen(results[i].content) > 0
            /\ content_hash(results[i]) \notin seen_content_hashes
    THEN <<results[i]>>
         \o MergeFrom(results, i + 1,
                      seen_content_hashes \cup {content_hash(results[i])})
    ELSE MergeFrom(results, i + 1, seen_content_hashes)
_merge_and_dedup_SkipsFirst(results) == MergeFrom(results, 2, {})
_merge_and_dedup(results) == MergeFrom(results, 1, {})

\* list.sort(key=similarity, reverse=True): stable, equal keys keep their
\* order
RECURSIVE SortBySimilarity(_)
InsertBySimilarity(r, sorted) ==
    LET before == SelectSeq(sorted, LAMBDA x : x.similarity >= r.similarity)
        after == SelectSeq(sorted, LAMBDA x : x.similarity < r.similarity)
    IN  before \o <<r>> \o after
SortBySimilarity_AsGiven(results) == results
SortBySimilarity(results) ==
    IF results = <<>> THEN <<>>
    ELSE InsertBySimilarity(results[Len(results)],
                            SortBySimilarity(SubSeq(results, 1, Len(results) - 1)))

Take(results, n) == SubSeq(results, 1, Min(n, Len(results)))

\* steps 4 to 6 of search_by_company_name
FuseByCompany(all_results, company_name, top_k, threshold) ==
    LET merged_results == _merge_and_dedup(all_results)
        considered == Take(merged_results, top_k * 2)
        Relevant(r) ==
            _calculate_company_similarity(r, company_name) >= threshold
        Enhance(r) ==
            LET company_similarity == _calculate_company_similarity(r, company_name)
            IN  [r EXCEPT !.similarity =
                              (7 * r.similarity + 3 * company_similarity) \div 10,
                          !.company_relevance = company_similarity]
        kept == SelectSeq(considered, Relevant)
        enhanced_results == [i \in 1..Len(kept) |-> Enhance(kept[i])]
    IN  Take(SortBySimilarity(enhanced_results), top_k)

\* the three strategy calls of search_by_company_name
StrategyMatches(collection, company_name, top_k, calls) ==
    [exact |->
        _search_exact_company_name(collection, company_name, top_k, calls.exact),
     fuzzy |->
        _search_fuzzy_company_name(collection, calls.name_parts, top_k, calls.fuzzy),
     semantic |->
        _semantic_search(collection, top_k, NoFilter, calls.semantic)]

\* an exception reaches the except clause of search_by_company_name
OuterExceptReached(collection, company_name, top_k, calls) ==
    LET m == StrategyMatches(collection, company_name, top_k, calls)
    IN  m.exact.raised \/ m.fuzzy.raised \/ m.semantic.raised

\* search_by_company_name; the except clause answers with _semantic_search
search_by_company_name(collection, company_name, top_k, threshold, calls) ==
    LET m == StrategyMatches(collection, company_name, top_k, calls)
    IN  IF OuterExceptReached(collection, company_name, top_k, calls)
        THEN _semantic_search(collection, top_k, NoFilter, calls.fallback)
        ELSE Returned(FuseByCompany(
                 m.exact.docs \o m.fuzzy.docs \o m.semantic.docs,
                 company_name, top_k, threshold))

\* _enhance_with_company_relevance: every result is blended 0.6 / 0.4 with
\* its company relevance and the list is sorted; nothing is dropped
_enhance_with_company_relevance_Penalty(results, company_name) ==
    SortBySimilarity(
        [i \in 1..Len(results) |->
            [results[i] EXCEPT
                !.similarity =
                    (6 * @ - 4 * _calculate_company_similarity(results[i], company_name))
                    \div 10,
                !.company_relevance =
                    _calculate_company_similarity(results[i], company_name)]])
_enhance_with_company_relevance(results, company_name) ==
    SortBySimilarity(
        [i \in 1..Len(results) |->
            [results[i] EXCEPT
                !.similarity =
                    (6 * @ + 4 * _calculate_company_similarity(results[i], company_name))
                    \div 10,
                !.company_relevance =
                    _calculate_company_similarity(results[i], company_name)]])

\* query_terms of _rerank_and_dedup: the runs of at least two word
\* characters of the query, in order
RECURSIVE TermsOf(_, _)
TermsOf(s, word) ==
    LET done == IF Len(word) >= 2 THEN <<word>> ELSE <<>>
    IN  IF s = <<>> THEN done
        ELSE IF Head(s) = " " THEN done \o TermsOf(Tail(s), <<>>)
        ELSE TermsOf(Tail(s), Append(word, Head(s)))
query_terms(query) == TermsOf(query, <<>>)

\* the first loop of _rerank_and_dedup: a content of more than 50
\* characters is kept once per fingerprint, a shorter one is always kept
RECURSIVE RerankUnique(_, _, _)
RerankUnique(results, i, seen_contents) ==
    IF i > Len(results) THEN <<>>
    ELSE IF ContentLen(results[i].content) > 50
    THEN IF Prefix200(results[i].content) \notin seen_contents
         THEN <<results[i]>>
              \o RerankUnique(results, i + 1,
                              seen_contents \cup {Prefix200(results[i].content)})
         ELSE RerankUnique(results, i + 1, seen_contents)
    ELSE <<results[i]>> \o RerankUnique(results, i + 1, seen_contents)

\* _rerank_and_dedup
_rerank_and_dedup(results, query, top_k) ==
    LET unique_results == RerankUnique(results, 1, {})
        terms == query_terms(query)
        Score(r) == Cardinality({k \in 1..Len(terms) : InContent(terms[k], r.content)})
        Boost(r) == Min((2000 * Score(r)) \div Max(Len(terms), 1), 2000)
        boosted == [i \in 1..Len(unique_results) |->
                       [unique_results[i] EXCEPT
                           !.similarity = @ + Boost(unique_results[i]),
                           !.query_relevance = Score(unique_results[i])]]
    IN  Take(SortBySimilarity(boosted), top_k)


(***************************************************************************)
(* QwenVectorizer: the scenario filter and search_similar_documents        *)
(***************************************************************************)
\* str.lower() on a character; the Chinese characters have no case
Lower(c) ==
    IF c = "I" THEN "i" ELSE IF c = "P" THEN "p" ELSE IF c = "O" THEN "o" ELSE c
LowerContent(c) == [c EXCEPT !.text = [i \in 1..Len(c.text) |-> Lower(c.text[i])]]

\* scenario_keywords of _filter_by_scenario_relevance:
\*   撤否企业分析:     撤否 审核 问询 证监会 现场检查 财务造假 内控
\*   长期辅导企业分析: 辅导 备案 上市 IPO 保荐 中介
\*   上下游企业分析:   关联 股权 交易 控制 投资 股东
\* any other scenario has no keywords
scenario_keywords(scenario) ==
    IF scenario = "chefou_qiye_fenxi"
    THEN << <<"che", "fou">>, <<"shen", "he">>, <<"wen", "xun">>,
            <<"zheng", "jian", "hui">>, <<"xian", "chang", "jian", "cha">>,
            <<"cai", "wu", "zao", "jia">>, <<"nei", "kong">> >>
    ELSE IF scenario = "changqi_fudao_qiye_fenxi"
    THEN << <<"fu", "dao">>, <<"bei", "an">>, <<"shang", "shi">>,
            <<"I", "P", "O">>, <<"bao", "jian">>, <<"zhong", "jie">> >>
    ELSE IF scenario = "shangxiayou_qiye_fenxi"
    THEN << <<"guan", "lian">>, <<"gu", "quan">>, <<"jiao", "yi">>,
            <<"kong", "zhi">>, <<"tou", "zi">>, <<"gu", "dong">> >>
    ELSE <<>>

\* keyword_score: the keywords found in the lower-cased content
keyword_score(result, keywords) ==
    Cardinality({k \in 1..Len(keywords) :
                    InContent(keywords[k], LowerContent(result.content))})

\* min(keyword_score / 3, 1.0) * 0.3, in units of 0.0001
scenario_boost(score) == Min(1000 * score, 3000)

\* the guard of the early return: len(filtered_results) < len(results) * 0.3
TooFewLeft(filtered_results, results) ==
    10 * Len(filtered_results) < 3 * Len(results)

\* _filter_by_scenario_relevance: every result gets its boost and its
\* scenario_relevance; the early return hands back a prefix of the scored
\* list, results[:max(5, len(results) // 2)]
_filter_by_scenario_relevance(results, scenario) ==
    LET keywords == scenario_keywords(scenario)
        scored_results ==
            [i \in 1..Len(results) |->
                ("similarity" :> results[i].similarity
                                  + scenario_boost(keyword_score(results[i], keywords)))
                @@ ("scenario_relevance" :> keyword_score(results[i], keywords))
                @@ results[i]]
        Relevant(r) == r.scenario_relevance > 0
        filtered_results == SelectSeq(scored_results, Relevant)
    IN  IF keywords = <<>> THEN results
        ELSE IF TooFewLeft(filtered_results, results)
        THEN Take(scored_results, Max(5, Len(results) \div 2))
        ELSE filtered_results

\* search_similar_documents.  calls names what each collaborator does in
\* this call: preprocess ("fail" when query.lower() raises), and the three
\* _semantic_search calls first, relaxed and by_company.  The collection
\* answers every query text nearest first; the distance of a stored
\* document stands for its distance to the text of the call.
search_similar_documents(collection, query, top_k, filters, company_name, scenario, calls) ==
    LET first == _semantic_search(collection, top_k, filters, calls.first).docs
        relaxed == _semantic_search(collection, top_k, NoFilter, calls.relaxed).docs
        after_relax ==
            IF first = <<>> /\ ~filters.any
            THEN IF scenario # "" /\ relaxed # <<>>
                 THEN _filter_by_scenario_relevance(relaxed, scenario)
                 ELSE relaxed
            ELSE first
        by_company ==
            _semantic_search(collection, top_k, filters, calls.by_company).docs
        results ==
            IF after_relax = <<>> /\ company_name # <<>> THEN by_company
            ELSE after_relax
    IN  IF calls.preprocess = "fail" THEN Returned(<<>>)
        ELSE Returned(_rerank_and_dedup(results, query, top_k))
(***************************************************************************)
(* QwenVectorizer: the retrieval call and the fusion steps as actions      *)
(***************************************************************************)
MaxTopK == 2
MaxCands == 3

\* 欣强电子, 欣强恒, 欣, 其他
XinQiangDianZi == <<"xin", "qiang", "dian", "zi">>
XinQiangHeng == <<"xin", "qiang", "heng">>
Xin == <<"xin">>
QiTa == <<"qi", "ta">>
CompanyNames == {XinQiangDianZi, XinQiangHeng, Xin}

\* contents: two long ones that agree on their first 200 characters, a
\* short one, one of 122 characters, the empty string
LongContent == [lead |-> 0, text |-> XinQiangDianZi \o <<"che", "fou">>, trail |-> 300]
LongerContent == [lead |-> 0, text |-> XinQiangDianZi \o <<"che", "fou">>, trail |-> 400]
ShortContent == [lead |-> 0, text |-> XinQiangHeng, trail |-> 0]
MediumContent == [lead |-> 120, text |-> QiTa, trail |-> 0]
EmptyContent == [lead |-> 0, text |-> <<>>, trail |-> 0]

\* what store_documents can have put in the collection, nearest to the
\* query first; the same chunk stored twice is two documents
StoredDocuments ==
    << [content |-> LongContent, company |-> XinQiangDianZi, distance |-> 2000],
       [content |-> LongerContent, company |-> XinQiangDianZi, distance |-> 2500],
       [content |-> ShortContent, company |-> <<>>, distance |-> 3000],
       [content |-> ShortContent, company |-> <<>>, distance |-> 3000],
       [content |-> MediumContent, company |-> QiTa, distance |-> 12000] >>

RECURSIVE Restrict(_, _, _)
Restrict(docs, i, keep) ==
    IF i > Len(docs) THEN <<>>
    ELSE (IF i \in keep THEN <<docs[i]>> ELSE <<>>) \o Restrict(docs, i + 1, keep)
Collections ==
    {Restrict(StoredDocuments, 1, keep) : keep \in SUBSET (1..Len(StoredDocuments))}

Outcomes == {"ok", "fail"}
Thresholds == {3000}

\* the orders list(set(parts)) can have
Orders(S) ==
    {order \in [1..Cardinality(S) -> S] : Range(order) = S}

NoRetrieval == [company_name |-> <<>>, top_k |-> 0, threshold |-> 0,
                calls |-> "none"]

RetrieveIdle ==
    /\ retr_request = NoRetrieval
    /\ retr_result = Returned(<<>>)
    /\ retr_pc = "idle"

SearchByCompanyName ==
    /\ retr_pc = "idle"
    /\ \E company_name \in CompanyNames, top_k \in 1..MaxTopK,
          threshold \in Thresholds :
       \E name_parts \in Orders(_extract_company_name_parts(company_name)),
          exact \in [1..4 -> Outcomes],
          fuzzy \in [_extract_company_name_parts(company_name) -> Outcomes],
          semantic \in Outcomes :
          LET sent == [exact |-> exact, name_parts |-> name_parts,
                       fuzzy |-> fuzzy, semantic |-> semantic,
                       fallback |-> "not_called"]
          IN  /\ \A k \in (1..4) \ ExactCalls(company_name) : exact[k] = "ok"
              /\ \E fallback \in
                     (IF OuterExceptReached(corpus, company_name, top_k, sent)
                      THEN Outcomes ELSE {"not_called"}) :
                     LET calls == [sent EXCEPT !.fallback = fallback]
                     IN  /\ retr_request' =
                                [company_name |-> company_name, top_k |-> top_k,
                                 threshold |-> threshold, calls |-> calls]
                         /\ retr_result' =
                                search_by_company_name(corpus, company_name,
                                                       top_k, threshold, calls)
    /\ retr_pc' = "returned"
    /\ UNCHANGED <<corpus, exceptRetrieve>>

\* inputs of search_similar_documents: the query "", 欣强恒 or 欣强恒 撤否, no
\* filter or a filter on the company 其他, no scenario or 撤否企业分析
SimilarQueries ==
    {<<>>, XinQiangHeng, XinQiangHeng \o <<" ">> \o <<"che", "fou">>}
SimilarFilters == {NoFilter, CompanyEq(QiTa)}
SimilarCompanies == {<<>>, XinQiangDianZi}
SimilarScenarios == {"", "chefou_qiye_fenxi"}

\* the collaborator calls search_similar_documents reaches, in order
RelaxReached(collection, top_k, filters, first) ==
    /\ _semantic_search(collection, top_k, filters, first).docs = <<>>
    /\ ~filters.any
ByCompanyReached(collection, top_k, filters, company_name, scenario, calls) ==
    /\ company_name # <<>>
    /\ search_similar_documents(collection, <<>>, top_k, filters, <<>>,
                                scenario, calls).docs = <<>>

SearchSimilarDocuments ==
    /\ retr_pc = "idle"
    /\ \E query \in SimilarQueries, top_k \in 1..MaxTopK,
          filters \in SimilarFilters, company_name \in SimilarCompanies,
          scenario \in SimilarScenarios, preprocess \in Outcomes :
       \E first \in (IF preprocess = "ok" THEN Outcomes ELSE {"not_called"}) :
       \E relaxed \in (IF preprocess = "ok"
                           /\ RelaxReached(corpus, top_k, filters, first)
                        THEN Outcomes ELSE {"not_called"}) :
          LET sent == [preprocess |-> preprocess, first |-> first,
                       relaxed |-> relaxed, by_company |-> "not_called"]
          IN  \E by_company \in
                    (IF preprocess = "ok"
                        /\ ByCompanyReached(corpus, top_k, filters,
                                            company_name, scenario, sent)
                     THEN Outcomes ELSE {"not_called"}) :
                 LET calls == [sent EXCEPT !.by_company = by_company]
                 IN  /\ retr_request' =
                            [query |-> query, top_k |-> top_k,
                             filters |-> filters, company_name |-> company_name,
                             scenario |-> scenario, calls |-> calls]
                     /\ retr_result' =
                            search_similar_documents(corpus, query, top_k,
                                filters, company_name, scenario, calls)
    /\ retr_pc' = "returned_similar"
    /\ UNCHANGED <<corpus, exceptRetrieve>>

RetrieveReturn ==
    /\ retr_pc \in {"returned", "returned_similar"}
    /\ retr_request' = NoRetrieval
    /\ retr_result' = Returned(<<>>)
    /\ retr_pc' = "idle"
    /\ UNCHANGED <<corpus, exceptRetrieve>>

RetrieveNext == SearchByCompanyName \/ SearchSimilarDocuments \/ RetrieveReturn

\* _extract_company_name_parts on its own.  A name has up to MaxNameLen
\* characters out of 欣 强 公 司 a and the blank; the list returned holds
\* the parts in the order the set happens to be iterated.
MaxNameLen == 3
NameChars == {"xin", "qiang", "gong", "si", "a", " "}
EntityNames == SeqsUpTo(NameChars, MaxNameLen)

PartsIdle ==
    /\ parts_name = <<>>
    /\ parts_list = <<>>
    /\ parts_pc = "idle"

ExtractCompanyNameParts ==
    /\ parts_pc = "idle"
    /\ \E company_name \in EntityNames :
       \E parts \in Orders(_extract_company_name_parts(company_name)) :
          /\ parts_name' = company_name
          /\ parts_list' = parts
    /\ parts_pc' = "returned"
    /\ UNCHANGED exceptParts

ExtractReturn ==
    /\ parts_pc = "returned"
    /\ parts_name' = <<>>
    /\ parts_list' = <<>>
    /\ parts_pc' = "idle"
    /\ UNCHANGED exceptParts

PartsNext == ExtractCompanyNameParts \/ ExtractReturn

\* candidate lists given to the fusion steps
FusionContents ==
    {LongContent, LongerContent, ShortContent, MediumContent, EmptyContent}
FusionSimilarities == {3000, 9000}
FusionCandidates ==
    {Candidate([content |-> c, company |-> <<>>], s, "semantic") :
        c \in FusionContents, s \in FusionSimilarities}
CandidateLists == SeqsUpTo(FusionCandidates, MaxCands)

\* "", 欣强电子, 欣强恒 撤否
FusionQueries ==
    {<<>>, XinQiangDianZi, XinQiangHeng \o <<" ">> \o <<"che", "fou">>}

NoFusion == [results |-> <<>>, query |-> <<>>, top_k |-> 0]
NoFused == [step |-> "none", docs |-> <<>>]

FusionIdle ==
    /\ fus_request = NoFusion
    /\ fus_result = NoFused
    /\ fus_again = NoFused
    /\ fus_pc = "idle"

MergeAndDedup ==
    /\ fus_pc = "idle"
    /\ \E results \in CandidateLists :
          /\ fus_request' = [results |-> results, query |-> <<>>, top_k |-> 0]
          /\ fus_result' = [step |-> "_merge_and_dedup",
                            docs |-> _merge_and_dedup(results)]
    /\ fus_pc' = "returned"
    /\ UNCHANGED <<fus_again, exceptFusion>>

RerankAndDedup ==
    /\ fus_pc = "idle"
    /\ \E results \in CandidateLists, query \in FusionQueries, top_k \in 1..MaxTopK :
          /\ fus_request' = [results |-> results, query |-> query, top_k |-> top_k]
          /\ fus_result' = [step |-> "_rerank_and_dedup",
                            docs |-> _rerank_and_dedup(results, query, top_k)]
    /\ fus_pc' = "returned"
    /\ UNCHANGED <<fus_again, exceptFusion>>

\* candidates for the company blend: the content names 欣强电子 once, five
\* times or not at all; metadata company is 欣强电子, 欣强电子公司, 欣强恒
\* or unset
MaxEntityCands == 2
FiveTimes ==
    [lead |-> 0, trail |-> 0,
     text |-> XinQiangDianZi \o XinQiangDianZi \o XinQiangDianZi
              \o XinQiangDianZi \o XinQiangDianZi]
EntityCompanies ==
    {XinQiangDianZi, XinQiangDianZi \o GongSi, XinQiangHeng, <<>>}
EntityCandidates ==
    {Candidate([content |-> c, company |-> m], s, "semantic") :
        c \in {LongContent, ShortContent, FiveTimes},
        m \in EntityCompanies, s \in FusionSimilarities}
EntityLists == SeqsUpTo(EntityCandidates, MaxEntityCands)

\* steps 4 to 6 of search_by_company_name on a list of candidates
BlendByCompany ==
    /\ fus_pc = "idle"
    /\ \E results \in EntityLists, top_k \in 1..MaxTopK, threshold \in Thresholds :
          /\ fus_request' = [results |-> results, query |-> <<>>, top_k |-> top_k,
                             company_name |-> XinQiangDianZi,
                             threshold |-> threshold]
          /\ fus_result' = [step |-> "search_by_company_name",
                            docs |-> FuseByCompany(results, XinQiangDianZi,
                                                   top_k, threshold)]
    /\ fus_pc' = "blended"
    /\ UNCHANGED <<fus_again, exceptFusion>>

EnhanceWithCompanyRelevance ==
    /\ fus_pc = "idle"
    /\ \E results \in EntityLists :
          /\ fus_request' = [results |-> results, query |-> <<>>, top_k |-> 0,
                             company_name |-> XinQiangDianZi, threshold |-> 0]
          /\ fus_result' = [step |-> "_enhance_with_company_relevance",
                            docs |-> _enhance_with_company_relevance(
                                         results, XinQiangDianZi)]
    /\ fus_pc' = "blended"
    /\ UNCHANGED <<fus_again, exceptFusion>>

\* candidate lists for the scenario filter: up to MaxFilterCands candidates
\* whose content names 撤否 or does not
MaxFilterCands == 6
FilterCandidates ==
    {Candidate([content |-> LongContent, company |-> <<>>], 9000, "semantic"),
     Candidate([content |-> ShortContent, company |-> <<>>], 3000, "semantic")}
FilterLists == SeqsUpTo(FilterCandidates, MaxFilterCands)
FilterScenarios == {"chefou_qiye_fenxi", "shangxiayou_qiye_fenxi", "yuqing_fenxi"}

FilterByScenarioRelevance ==
    /\ fus_pc = "idle"
    /\ \E results \in FilterLists, scenario \in FilterScenarios :
          /\ fus_request' = [results |-> results, query |-> <<>>, top_k |-> 0,
                             scenario |-> scenario]
          /\ fus_result' = [step |-> "_filter_by_scenario_relevance",
                            docs |-> _filter_by_scenario_relevance(results, scenario)]
    /\ fus_pc' = "filtered"
    /\ UNCHANGED <<fus_again, exceptFusion>>

\* the caller gives the list it got back to the same step again, with the
\* same query and top_k
FuseAgain ==
    /\ fus_pc = "returned"
    /\ fus_again' =
          [step |-> fus_result.step,
           docs |-> IF fus_result.step = "_merge_and_dedup"
                    THEN _merge_and_dedup(fus_result.docs)
                    ELSE _rerank_and_dedup(fus_result.docs, fus_request.query,
                                           fus_request.top_k)]
    /\ fus_pc' = "repeated"
    /\ UNCHANGED <<fus_request, fus_result, exceptFusion>>

FusionReturn ==
    /\ fus_pc \in {"returned", "repeated", "blended", "filtered"}
    /\ fus_request' = NoFusion
    /\ fus_result' = NoFused
    /\ fus_again' = NoFused
    /\ fus_pc' = "idle"
    /\ UNCHANGED exceptFusion

FusionNext ==
    \/ MergeAndDedup \/ RerankAndDedup \/ FuseAgain
    \/ BlendByCompany \/ EnhanceWithCompanyRelevance
    \/ FilterByScenarioRelevance
    \/ FusionReturn

(***************************************************************************)
(* QwenWebSearcher                                                         *)
(*                                                                         *)
(* A query, a company name and a scenario are sequences of tokens; <<>> is *)
(* None or "" (the code tests them with `if company_name:`).  "_" is a     *)
(* token a string may contain.  md5 is taken to be injective, so a cache   *)
(* key is the text that is hashed.  A response of Generation.call is       *)
(* [status, body, n, shape]; status 0 is a call that raises.  Scores are   *)
(* in percent.                                                             *)
(***************************************************************************)
MaxWebItems == 2
MaxCached == 2

CheFou == <<"chefou_qiye_fenxi">>
\* the keys of mock_templates: 撤否企业分析, 长期辅导企业分析, 上下游企业分析
MockTemplates ==
    {CheFou, <<"changqi_fudao_qiye_fenxi">>, <<"shangxiayou_qiye_fenxi">>}

WsQueries == {<<"q">>, <<"q", "_", "x">>}
WsCompanies == {<<>>, <<"x">>}
WsScenarios == {<<>>, <<"x">>, CheFou}

\* answers of the search-enabled call of _perform_scenario_search
Raises == [status |-> 0, body |-> "none", n |-> 0, shape |-> "none"]
NonSuccess == [status |-> 500, body |-> "none", n |-> 0, shape |-> "none"]
SearchResponses ==
    {Raises, NonSuccess, [status |-> 200, body |-> "null", n |-> 0, shape |-> "none"]}
    \cup {[status |-> 200, body |-> "json", n |-> n, shape |-> shape] :
             n \in 1..MaxWebItems, shape \in {"objects", "not_objects", "bad_score"}}
    \cup {[status |-> 200, body |-> "text", n |-> n, shape |-> "none"] :
             n \in 0..MaxWebItems}
\* answers of the plain call of _perform_fallback_search
FallbackResponses ==
    {Raises, NonSuccess,
     [status |-> 200, body |-> "null", n |-> 0, shape |-> "none"],
     [status |-> 200, body |-> "text", n |-> 1, shape |-> "none"]}
NotCalled == [status |-> -1, body |-> "none", n |-> 0, shape |-> "none"]

\* _generate_cache_key: "_".join(key_parts)
_generate_cache_key(query, company_name, scenario) ==
    query
    \o (IF company_name # <<>> THEN <<"_">> \o company_name ELSE <<>>)
    \o (IF scenario # <<>> THEN <<"_">> \o scenario ELSE <<>>)

RawResult(origin, relevance_score, valid) ==
    [origin |-> origin, relevance_score |-> relevance_score, valid |-> valid]

\* _get_scenario_mock_results: one made-up result, from the template of the
\* scenario or the default one
_get_scenario_mock_results(query, scenario) ==
    IF scenario \in MockTemplates
    THEN << RawResult("mock", 70, TRUE) >>
    ELSE << RawResult("mock", 60, TRUE) >>

\* _parse_general_structured_text and the parsers of the three scenarios:
\* one result per section that is long enough
_parse_structured_text_with_scenario(response, scenario) ==
    [i \in 1..response.n |->
        RawResult("text", IF scenario \in MockTemplates THEN 80 ELSE 70, TRUE)]

\* _parse_scenario_response: [] when the content is None or an element of
\* the array is not an object
_parse_scenario_response(response, scenario) ==
    IF response.body = "null" THEN <<>>
    ELSE IF response.body = "json"
    THEN IF response.shape = "not_objects" THEN <<>>
         ELSE [i \in 1..response.n |->
                  RawResult("web", 90, response.shape # "bad_score")]
    ELSE _parse_structured_text_with_scenario(response, scenario)

\* _perform_fallback_search
_perform_fallback_search(query, scenario, fallback_response) ==
    IF fallback_response.status = 200 /\ fallback_response.body # "null"
    THEN << RawResult("knowledge", 60, TRUE) >>
    ELSE _get_scenario_mock_results(query, scenario)

\* _perform_scenario_search
_perform_scenario_search(query, scenario, response, fallback_response) ==
    IF response.status = 0 THEN _get_scenario_mock_results(query, scenario)
    ELSE IF response.status = 200 THEN _parse_scenario_response(response, scenario)
    ELSE _perform_fallback_search(query, scenario, fallback_response)

\* _format_search_results raises on a relevance_score that is not a number
FormatRaises(raw_results) ==
    \E i \in 1..Len(raw_results) : ~raw_results[i].valid

\* _format_search_results
_format_search_results(raw_results, original_query, company_name, scenario) ==
    [i \in 1..Len(raw_results) |->
        [origin |-> raw_results[i].origin,
         similarity |-> Min(Max(raw_results[i].relevance_score, 0), 100),
         search_query |-> original_query,
         company_name |-> company_name,
         scenario |-> scenario]]

\* _get_fallback_results; scenario or "通用搜索" selects the same template
_get_fallback_results(query, company_name, scenario) ==
    _format_search_results(_get_scenario_mock_results(query, scenario),
                           query, company_name, scenario)

EmptyCache == [k \in {} |-> <<>>]
CachePut(cache, key, value) ==
    [k \in DOMAIN cache \cup {key} |-> IF k = key THEN value ELSE cache[k]]

\* QwenWebSearcher.search: what it returns, the cache it leaves, and what
\* happened on the way
search(cache, query, company_name, scenario, response, fallback_response) ==
    LET cache_key == _generate_cache_key(query, company_name, scenario)
        web_results ==
            _perform_scenario_search(query, scenario, response, fallback_response)
        formatted_results ==
            _format_search_results(web_results, query, company_name, scenario)
    IN  IF cache_key \in DOMAIN cache
        THEN [result |-> Returned(cache[cache_key]), cache |-> cache,
              cache_hit |-> TRUE, excepted |-> FALSE]
        ELSE IF FormatRaises(web_results)
        THEN [result |-> Returned(_get_fallback_results(query, company_name, scenario)),
              cache |-> cache, cache_hit |-> FALSE, excepted |-> TRUE]
        ELSE [result |-> Returned(formatted_results),
              cache |-> CachePut(cache, cache_key, formatted_results),
              cache_hit |-> FALSE, excepted |-> FALSE]

NoSearch == [query |-> <<>>, company_name |-> <<>>, scenario |-> <<>>]
NoTrace == [cache_hit |-> FALSE, excepted |-> FALSE,
            response |-> NotCalled, fallback_response |-> NotCalled]

SearchIdle ==
    /\ ws_request = NoSearch
    /\ ws_result = Returned(<<>>)
    /\ ws_trace = NoTrace
    /\ ws_pc = "idle"

\* the calls search makes to the collaborator
IsCacheHit(query, company_name, scenario) ==
    _generate_cache_key(query, company_name, scenario) \in DOMAIN ws_cache

Search ==
    /\ ws_pc = "idle"
    /\ \E query \in WsQueries, company_name \in WsCompanies, scenario \in WsScenarios :
       \E response \in (IF IsCacheHit(query, company_name, scenario)
                        THEN {NotCalled} ELSE SearchResponses) :
       \E fallback_response \in (IF response.status = 500
                                 THEN FallbackResponses ELSE {NotCalled}) :
          LET r == search(ws_cache, query, company_name, scenario,
                          response, fallback_response)
          IN  /\ Cardinality(DOMAIN r.cache) <= MaxCached
              /\ ws_request' = [query |-> query, company_name |-> company_name,
                                scenario |-> scenario]
              /\ ws_result' = r.result
              /\ ws_cache' = r.cache
              /\ ws_trace' = [cache_hit |-> r.cache_hit, excepted |-> r.excepted,
                              response |-> response,
                              fallback_response |-> fallback_response]
    /\ ws_pc' = "returned"
    /\ UNCHANGED exceptSearch

SearchReturn ==
    /\ ws_pc = "returned"
    /\ ws_request' = NoSearch
    /\ ws_result' = Returned(<<>>)
    /\ ws_trace' = NoTrace
    /\ ws_pc' = "idle"
    /\ UNCHANGED <<ws_cache, exceptSearch>>

\* clear_cache
ClearCache ==
    /\ ws_pc = "idle"
    /\ ws_cache # EmptyCache
    /\ ws_cache' = EmptyCache
    /\ UNCHANGED <<ws_request, ws_result, ws_trace, ws_pc, exceptSearch>>

SearchNext == Search \/ SearchReturn \/ ClearCache

(***************************************************************************)
(* LLMExtractor.extract_company_and_scenario                               *)
(***************************************************************************)
\* the members of the enumeration ScenarioType and their values
ScenarioTypeNames == {"WITHDRAWAL", "TUTORING", "RELATIONSHIP"}
ScenarioType(member) ==
    CASE member = "WITHDRAWAL" -> "chefou_qiye_fenxi"
      [] member = "TUTORING" -> "changqi_fudao_qiye_fenxi"
      [] member = "RELATIONSHIP" -> "shangxiayou_qiye_fenxi"

\* a query is the set of things the patterns and keywords find in it: a
\* name ending in 股份/科技/..., six digits, 撤否, 撤否风险, 辅导
QueryMarks == {"gufen", "code6", "chefou", "chefou_fengxian", "fudao"}
ExtractQueries == SUBSET QueryMarks
QueryContains(query, keyword) ==
    \/ keyword \in query
    \/ keyword = "chefou" /\ "chefou_fengxian" \in query

\* what the call returns, or that it raised
NoExtraction ==
    [raised |-> FALSE, keys |-> {}, company_code |-> "", company_name |-> "",
     scenario |-> "", scenario_name |-> "", source |-> ""]
ExtractionRaised == [NoExtraction EXCEPT !.raised = TRUE]
ExtractionKeys ==
    {"company_code", "company_name", "scenario", "scenario_name",
     "confidence", "reasoning", "source"}

\* _get_fallback_result: the result dictionary is built with
\* ScenarioType.CUSTOM, an attribute lookup that raises AttributeError when
\* the enumeration has no such member
_get_fallback_result(query) ==
    IF "CUSTOM" \notin ScenarioTypeNames THEN ExtractionRaised
    ELSE LET by_keyword ==
                 IF QueryContains(query, "chefou") THEN "WITHDRAWAL"
                 ELSE IF QueryContains(query, "fudao") THEN "TUTORING"
                 ELSE "CUSTOM"
             scenario == IF by_keyword = "CUSTOM" THEN "CUSTOM"
                         ELSE ScenarioType(by_keyword)
         IN  [raised |-> FALSE, keys |-> ExtractionKeys,
              company_code |-> IF "code6" \in query THEN "code" ELSE "",
              company_name |-> IF "gufen" \in query THEN "name" ELSE "",
              scenario |-> scenario,
              scenario_name |->
                  IF QueryContains(query, "chefou_fengxian")
                  THEN "chefou_fengxian_pinggu_fenxi"
                  ELSE IF by_keyword = "CUSTOM" THEN "zidingyi_fenxi"
                  ELSE get_scenario_rule(scenario),
              source |-> "fallback"]

\* _normalize_scenario_name: the table of names first, the keywords of the
\* query next, 撤否企业分析 when nothing matches
_normalize_scenario_name(scenario_name, query) ==
    IF scenario_name = "chefou_qiye_fenxi" THEN ScenarioType("WITHDRAWAL")
    ELSE IF scenario_name = "fudao_fenxi" THEN ScenarioType("TUTORING")
    ELSE IF scenario_name = "caiwu_fenxi" THEN "caiwu_fenxi"
    ELSE IF QueryContains(query, "chefou") THEN ScenarioType("WITHDRAWAL")
    ELSE IF QueryContains(query, "fudao") THEN ScenarioType("TUTORING")
    ELSE ScenarioType("WITHDRAWAL")

\* _validate_and_standardize; a scenario that is null in the JSON makes
\* scenario_name.strip() raise.  The names answered are ones that
\* _clean_company_name leaves as they are, and no stock code is answered.
_validate_and_standardize(answer, query) ==
    IF answer.scenario = "null" THEN ExtractionRaised
    ELSE LET normalized_scenario ==
                 _normalize_scenario_name(answer.scenario, query)
             is_type ==
                 \E member \in ScenarioTypeNames :
                    ScenarioType(member) = normalized_scenario
         IN  [raised |-> FALSE,
              keys |-> ExtractionKeys \cup {"original_scenario"},
              company_code |-> "",
              company_name |-> answer.company_name,
              scenario |-> IF is_type THEN normalized_scenario
                           ELSE ScenarioType("WITHDRAWAL"),
              scenario_name |-> IF is_type
                                THEN get_scenario_rule(normalized_scenario)
                                ELSE normalized_scenario,
              source |-> "llm_extraction"]

\* _parse_llm_response: the text between the first { and the last } is
\* parsed; without braces, on a JSONDecodeError and on any other exception
\* the fallback result is returned
_parse_llm_response(content, query) ==
    IF content.kind = "json"
    THEN LET validated_result == _validate_and_standardize(content.answer, query)
         IN  IF validated_result.raised THEN _get_fallback_result(query)
             ELSE validated_result
    ELSE _get_fallback_result(query)

\* extract_company_and_scenario: status 200 parses the content; another
\* status, and any exception inside the try, return the fallback result.  An
\* exception raised by the handler itself leaves the method.
extract_company_and_scenario(query, outcome) ==
    LET tried ==
            IF outcome.raises THEN ExtractionRaised
            ELSE IF outcome.status_code = 200
            THEN _parse_llm_response(outcome.content, query)
            ELSE _get_fallback_result(query)
    IN  IF tried.raised THEN _get_fallback_result(query) ELSE tried

\* what dashscope.Generation.call does: it raises, it answers another
\* status, or it answers 200 with a text without braces, with braces that
\* are not JSON, with a content that is not a string, or with a JSON object
NoAnswer == [company_name |-> "", scenario |-> ""]
ExtractAnswers ==
    [company_name : {"", "name"},
     scenario : {"chefou_qiye_fenxi", "fudao_fenxi", "caiwu_fenxi", "qita",
                 "null"}]
ExtractContents ==
    [kind : {"no_json", "bad_json", "not_str"}, answer : {NoAnswer}]
    \cup [kind : {"json"}, answer : ExtractAnswers]
NoContent == [kind |-> "none", answer |-> NoAnswer]
ExtractOutcomes ==
    {[raises |-> TRUE, status_code |-> 0, content |-> NoContent]}
    \cup [raises : {FALSE}, status_code : {500}, content : {NoContent}]
    \cup [raises : {FALSE}, status_code : {200}, content : ExtractContents]
NotCalledYet == [raises |-> FALSE, status_code |-> 0, content |-> NoContent]

ExtractIdle ==
    /\ ie_query = {}
    /\ ie_response = NotCalledYet
    /\ ie_result = NoExtraction
    /\ ie_pc = "idle"

ExtractCompanyAndScenario ==
    /\ ie_pc = "idle"
    /\ \E query \in ExtractQueries, outcome \in ExtractOutcomes :
          /\ ie_query' = query
          /\ ie_response' = outcome
          /\ ie_result' = extract_company_and_scenario(query, outcome)
    /\ ie_pc' = "returned"
    /\ UNCHANGED exceptExtract

ExtractorReturn ==
    /\ ie_pc = "returned"
    /\ ie_query' = {}
    /\ ie_response' = NotCalledYet
    /\ ie_result' = NoExtraction
    /\ ie_pc' = "idle"
    /\ UNCHANGED exceptExtract

ExtractNext == ExtractCompanyAndScenario \/ ExtractorReturn

(***************************************************************************)
(* Specifications: each runs one component, the others stay idle           *)
(***************************************************************************)
DefaultConfig == pq_config = [model |-> "qwen-max", web_search_enabled |-> TRUE]

Idle ==
    /\ DecideIdle /\ ParseIdle /\ PipeIdle
    /\ RetrieveIdle /\ FusionIdle
    /\ SearchIdle /\ ws_cache = EmptyCache
    /\ PartsIdle
    /\ ExtractIdle
AllIdle == Idle /\ corpus = <<>>

DecideInit == AllIdle /\ DefaultConfig
SpecDecide == DecideInit /\ [][DecideNext]_vars

ParseInit == AllIdle /\ DefaultConfig
SpecParse == ParseInit /\ [][ParseNext]_vars

PipeInit == AllIdle /\ pq_config \in PipeConfigs
SpecPipeline == PipeInit /\ [][PipeNext]_vars

RetrieveInit == Idle /\ corpus \in Collections /\ DefaultConfig
SpecRetrieve == RetrieveInit /\ [][RetrieveNext]_vars

FusionInit == AllIdle /\ DefaultConfig
SpecFusion == FusionInit /\ [][FusionNext]_vars

SearchInit == AllIdle /\ DefaultConfig
SpecSearch == SearchInit /\ [][SearchNext]_vars

PartsInit == AllIdle /\ DefaultConfig
SpecParts == PartsInit /\ [][PartsNext]_vars

ExtractInit == AllIdle /\ DefaultConfig
SpecExtract == ExtractInit /\ [][ExtractNext]_vars

(***************************************************************************)
(* Claims about analyze_search_need and _assess_local_info_quality         *)
(***************************************************************************)
Decided == dpc = "returned"

\* C1: with user_preference "never" the decision is should_search = FALSE,
\* confidence 0, search_type user_disabled, for every query, document list
\* and scenario; the call returns after the preference step, so the only
\* reason is the user's, no quality assessment is made and no search query
\* is built.
C1_NeverSuppressesSearch ==
    (Decided /\ request.user_preference = "never") =>
        /\ analysis.should_search = FALSE
        /\ analysis.confidence = 0
        /\ analysis.search_type = "user_disabled"
        /\ analysis.reasons = <<"user_disabled">>
        /\ analysis.search_query = <<>>
        /\ request.steps = <<"user_preference">>
        /\ quality = NoQuality

\* C1 witness: "never" with the time-sensitive keyword 最新 in the query, a
\* mandatory scenario and no local documents
C1_Witness ==
    /\ Decided
    /\ request.user_preference = "never"
    /\ "zuixin" \in request.query
    /\ request.scenario = "yuqing_fenxi"
    /\ request.local_docs = <<>>
    /\ analysis.should_search = FALSE

\* C2 (as claimed): with user_preference "always" the decision is
\* should_search = TRUE, confidence 1.0 and search_type user_requested for
\* every query and every document list.
C2_AlwaysIsUserRequested ==
    (Decided /\ request.user_preference = "always") =>
        /\ analysis.should_search = TRUE
        /\ analysis.confidence = 100
        /\ analysis.search_type = "user_requested"

\* C3: for an empty document list the assessment is is_sufficient = FALSE,
\* confidence 0.8 and the single deficiency "no local documents found", with
\* no other rule evaluated (the time relevance stays at its initial 0.0), and
\* the decision is should_search = TRUE unless user_preference is "never".
C3_EmptyCorpusSearches ==
    (Decided /\ request.local_docs = <<>>) =>
        LET q == _assess_local_info_quality(request.local_docs, request.query)
        IN  /\ q.is_sufficient = FALSE
            /\ q.confidence = 80
            /\ q.deficiencies = <<"no_docs">>
            /\ q.time_relevance = 0
            /\ request.user_preference # "never" =>
                   /\ quality = q
                   /\ analysis.should_search = TRUE

\* C3 witness: an "auto" call on an empty document list, with a query that
\* fires no keyword rule, decided to search
C3_Witness ==
    /\ Decided
    /\ request.local_docs = <<>>
    /\ request.user_preference = "auto"
    /\ request.query = {}
    /\ request.scenario = ""
    /\ analysis.should_search = TRUE
    /\ quality.confidence = 80

\* C4: for every non-empty document list shorter than min_local_docs the
\* assessment is is_sufficient = FALSE and records the count deficiency,
\* whatever the similarities of the documents.
C4_CountRuleFires ==
    (Decided /\ request.local_docs # <<>>
             /\ Len(request.local_docs) < min_local_docs) =>
        LET q == _assess_local_info_quality(request.local_docs, request.query)
        IN  /\ q.is_sufficient = FALSE
            /\ "count" \in Range(q.deficiencies)
            /\ request.user_preference # "never" => quality = q

\* C4 witness: one document of similarity 0.9 whose only deficiency is the
\* count
C4_Witness ==
    /\ Decided
    /\ Len(request.local_docs) = 1
    /\ request.local_docs[1].similarity = 90
    /\ request.user_preference = "auto"
    /\ quality.deficiencies = <<"count">>
    /\ quality.is_sufficient = FALSE

\* C17 (as claimed): with a user_preference that is neither "always" nor
\* "never", a request on which the mandatory trigger fires is answered with
\* should_search = true, search_type "mandatory" and confidence 0.9,
\* whatever the later rules find.
C17_MandatoryWins ==
    (/\ Decided
     /\ request.user_preference \notin {"always", "never"}
     /\ _is_mandatory_search(request.query, request.scenario)) =>
        /\ analysis.should_search
        /\ analysis.search_type = "mandatory"
        /\ analysis.confidence = MandatoryConfidence

\* the weight of the rule behind a recorded deficiency
RuleWeight(deficiency) ==
    IF deficiency = "count" THEN 30
    ELSE IF deficiency = "similarity" THEN 30
    ELSE IF deficiency = "time" THEN 40
    ELSE IF deficiency = "coverage" THEN 20
    ELSE 0
FiredWeights ==
    SumSeq([k \in 1..Len(quality.deficiencies) |->
               RuleWeight(quality.deficiencies[k])])

\* C19 (as claimed): for a non-empty document list the confidence of the
\* assessment is the sum of the weights of the rules that fired (count 0.3,
\* similarity 0.3, temporal 0.4, coverage 0.2) clamped to [0, 1], and
\* is_sufficient is false exactly when a rule fired.
C19_ConfidenceIsClampedSum ==
    (/\ Decided
     /\ request.user_preference # "never"
     /\ request.local_docs # <<>>) =>
        /\ quality.confidence = Min(Max(FiredWeights, 0), 100)
        /\ quality.is_sufficient = (quality.deficiencies = <<>>)

\* the confidences the rules that fired contribute to a decision
ContributedConfidences ==
    IF request.user_preference = "never" THEN {0}
    ELSE {0}
         \cup (IF request.user_preference = "always" THEN {100} ELSE {})
         \cup (IF _is_mandatory_search(request.query, request.scenario)
               THEN {MandatoryConfidence} ELSE {})
         \cup (IF ~quality.is_sufficient THEN {quality.confidence} ELSE {})
         \cup (IF _analyze_query_features(request.query).requires_web
               THEN {_analyze_query_features(request.query).confidence}
               ELSE {})
MaxContributed ==
    CHOOSE c \in ContributedConfidences : \A d \in ContributedConfidences : d <= c

\* C23 (as claimed): the confidence of a returned decision is the largest
\* confidence contributed by a rule that fired, capped at 1.0; nothing else
\* is added to it, and it lies within [0, 1].
C23_ConfidenceIsMaxOfRules ==
    Decided =>
        /\ analysis.confidence = Min(MaxContributed, 100)
        /\ analysis.confidence >= 0
        /\ analysis.confidence <= 100

\* the documents of the request that have a recent timestamp
RecentDocs ==
    {i \in 1..Len(request.local_docs) :
        request.local_docs[i].upload_recent \/ request.local_docs[i].publish_recent}

\* C24 (as claimed): the temporal rule fires only on a query with a
\* time-sensitive keyword, and the temporal relevance it compares with 0.3
\* is the fraction of documents with a recent timestamp, each counted once,
\* so it lies within [0, 1].
C24_TimeRelevanceIsFraction ==
    (/\ Decided
     /\ request.user_preference # "never"
     /\ request.local_docs # <<>>) =>
        /\ "time" \in Range(quality.deficiencies) =>
              _contains_time_keywords(request.query)
        /\ _contains_time_keywords(request.query) =>
              quality.time_relevance =
                  (100 * Cardinality(RecentDocs)) \div Len(request.local_docs)
        /\ quality.time_relevance >= 0
        /\ quality.time_relevance <= 100

\* the time-sensitive keywords 最新 近期 今年 本月 当前 最近
TimeSensitiveWords ==
    {"zuixin", "jinqi", "jinnian", "benyue", "dangqian", "zuijin"}

\* C25 (as claimed): for every user_preference other than "never", a query
\* with one of the time-sensitive keywords 最新 近期 今年 本月 当前 最近
\* fires the mandatory trigger, and the decision is should_search = true
\* whatever the local documents are.
C25_TimeKeywordIsMandatory ==
    (/\ Decided
     /\ request.user_preference # "never"
     /\ request.query \cap TimeSensitiveWords # {}) =>
        /\ _is_mandatory_search(request.query, request.scenario)
        /\ analysis.should_search

\* C27: every returned decision is consistent: should_search = false comes
\* with search_type none or user_disabled, confidence 0 and an empty search
\* query; should_search = true comes with search_type mandatory, auto or
\* user_requested.
C27_DecisionIsConsistent ==
    Decided =>
        /\ ~analysis.should_search =>
              /\ analysis.search_type \in {"none", "user_disabled"}
              /\ analysis.confidence = 0
              /\ analysis.search_query = <<>>
        /\ analysis.should_search =>
              analysis.search_type \in {"mandatory", "auto", "user_requested"}

\* C27 witness: every rule was evaluated on a query with the time keyword
\* 当前 and two local documents, and none fired
C27_Witness ==
    /\ Decided
    /\ request.user_preference = "auto"
    /\ "dangqian" \in request.query
    /\ Len(request.local_docs) = 2
    /\ ~analysis.should_search
    /\ analysis.search_type = "none"
    /\ analysis.confidence = 0

(***************************************************************************)
(* Claims about _parse_response                                            *)
(***************************************************************************)
Parsed == ppc = "returned"

\* the whole generator output is a JSON document
IsJson(text) == text.is_str /\ JsonLoadsOk(text.pieces)

\* C5 (as claimed): for every generator output that is not JSON, with or
\* without braces in it, _parse_response returns an object that has the five
\* required top-level keys.
C5_NonJsonHasRequiredKeys ==
    (Parsed /\ ~IsJson(response_text)) => RequiredKeys \subseteq parsed.keys

\* C6 (as claimed): whichever tier produced it, the object _parse_response
\* returns has the five required top-level keys, for every generator output.
C6_EveryTierHasRequiredKeys ==
    Parsed => RequiredKeys \subseteq parsed.keys
(***************************************************************************)
(* Claims about process_query                                              *)
(***************************************************************************)
\* C7 (as claimed): process_query never raises; whichever stage fails, it
\* returns a result whose response has the five required top-level keys,
\* and the error envelope carries the error text in response.summary.
C7_FailingStageStillWellFormed ==
    (pq_pc = "done" /\ pq_trace.failed # {}) =>
        /\ pq_result.kind \in {"result", "error"}
        /\ RequiredKeys \subseteq pq_result.response.keys
        /\ pq_result.kind = "error" => pq_result.response.summary = "error_text"


\* a scenario name was given that no rule has as its display name
UnknownScenarioGiven ==
    /\ pq_pc # "idle"
    /\ pq_args.scenario # ""
    /\ get_scenario_by_name(pq_args.scenario) = ""

\* C16 (as claimed): a lookup by an unknown scenario name resolves to the
\* default scenario 撤否企业分析, and process_query goes on with that rule.
C16_UnknownScenarioGetsDefault ==
    UnknownScenarioGiven => pq_args.scenario_rule = get_default_scenario

\* the request forbids the external search, or the processor has none
SearchOff ==
    /\ pq_pc # "idle"
    /\ \/ pq_args.use_web_data = "never"
       \/ ~pq_config.web_search_enabled

C26_GenerationCalledAtMostOnce ==
    pq_llm.calls <= 1

\* the external search was skipped on the decision of an "auto" request
\* and the context has been assembled
SkippedOnDecision ==
    /\ pq_pc \in {"generate", "parse"}
    /\ pq_config.web_search_enabled
    /\ pq_args.use_web_data = "auto"
    /\ ~pq_search_analysis.should_search
    /\ pq_trace.search_calls = 0

\* C29: with the default thresholds and web search enabled, when an "auto"
\* request skips the external search because should_search is false, at
\* least one local document passes the similarity filter and the context is
\* not the zero-evidence variant.
C29_SkippedSearchHasLocalEvidence ==
    SkippedOnDecision =>
        /\ Len(pq_filtered_docs) >= 1
        /\ ~pq_context.zero_evidence
        /\ pq_context.local_blocks >= 1

\* C29 witness: the search is skipped for local documents that all sit
\* exactly on the threshold, and both of them are kept.
C29_Witness ==
    /\ SkippedOnDecision
    /\ Len(pq_local_docs) = 2
    /\ \A i \in 1..2 : pq_local_docs[i].similarity = similarity_threshold
    /\ Len(pq_filtered_docs) = 2
    /\ ~pq_context.zero_evidence
(***************************************************************************)
(* Claims about QwenVectorizer                                             *)
(***************************************************************************)
Retrieved == retr_pc = "returned"

\* what the corpus calls that answered contribute, strategy by strategy
AnsweredExact ==
    Concat([k \in 1..4 |->
        IF k \in ExactCalls(retr_request.company_name)
           /\ retr_request.calls.exact[k] = "ok"
        THEN ExactHits(corpus, retr_request.company_name,
                       retr_request.top_k)
        ELSE <<>>])
AnsweredFuzzy ==
    Concat([k \in 1..Len(retr_request.calls.name_parts) |->
        IF retr_request.calls.fuzzy[retr_request.calls.name_parts[k]] = "ok"
        THEN FuzzyHits(corpus,
                       retr_request.calls.name_parts[k], retr_request.top_k)
        ELSE <<>>])
AnsweredSemantic ==
    IF retr_request.calls.semantic = "ok"
    THEN SemanticHits(corpus, retr_request.top_k, NoFilter)
    ELSE <<>>

\* at least one corpus call of the request failed
SomeCallFailed ==
    \/ \E k \in ExactCalls(retr_request.company_name) :
          retr_request.calls.exact[k] = "fail"
    \/ \E part \in DOMAIN retr_request.calls.fuzzy :
          retr_request.calls.fuzzy[part] = "fail"
    \/ retr_request.calls.semantic = "fail"

\* C8: in search_by_company_name a corpus call that fails contributes
\* nothing and nothing else is lost: the call does not raise, and it returns
\* the fusion of exactly the candidates of the calls that answered (the
\* empty list for a strategy whose calls all failed).
C8_FailedStrategyIsIsolated ==
    Retrieved =>
        /\ ~retr_result.raised
        /\ retr_result.docs =
              FuseByCompany(AnsweredExact \o AnsweredFuzzy \o AnsweredSemantic,
                            retr_request.company_name, retr_request.top_k,
                            retr_request.threshold)

\* C8 witness: the semantic call failed, the exact-entity calls answered,
\* and their candidates are in the returned list
C8_Witness ==
    /\ Retrieved
    /\ retr_request.calls.semantic = "fail"
    /\ \A k \in 1..4 : retr_request.calls.exact[k] = "ok"
    /\ AnsweredExact # <<>>
    /\ retr_result.docs # <<>>
    /\ \E i \in 1..Len(retr_result.docs) :
          retr_result.docs[i].search_type = "exact_company"

Fused == fus_pc = "returned"

\* two entries of a list share a content fingerprint
SharesFingerprint(docs) ==
    \E i, j \in 1..Len(docs) :
        i # j /\ Prefix200(docs[i].content) = Prefix200(docs[j].content)

\* C10 (as claimed): in every list a fusion step returns (_merge_and_dedup,
\* _rerank_and_dedup), no two results have the same first 200 characters of
\* content, whatever the content lengths.
C10_NoSharedFingerprint ==
    Fused => ~SharesFingerprint(fus_result.docs)

Repeated == fus_pc = "repeated"

\* a result without its scores: the content and metadata it carries
Identity(r) ==
    [content |-> r.content, company |-> r.company, search_type |-> r.search_type]
Occurrences(docs, id) ==
    Cardinality({i \in 1..Len(docs) : Identity(docs[i]) = id})
SameResults(docs1, docs2) ==
    /\ Len(docs1) = Len(docs2)
    /\ \A i \in 1..Len(docs1) :
          Occurrences(docs1, Identity(docs1[i])) = Occurrences(docs2, Identity(docs1[i]))

\* C11: a fusion step (_merge_and_dedup, or _rerank_and_dedup with the same
\* query and top_k) applied to its own output returns the same results:
\* none removed, none added.
C11_FusionIdempotentOnResults ==
    Repeated => SameResults(fus_result.docs, fus_again.docs)

\* C11 witness: a first pass that removed a duplicate, and a second pass of
\* _rerank_and_dedup that changed scores yet kept the same results
C11_Witness ==
    /\ Repeated
    /\ fus_result.step = "_rerank_and_dedup"
    /\ Len(fus_result.docs) < Len(fus_request.results)
    /\ Len(fus_result.docs) >= 2
    /\ fus_again.docs # fus_result.docs

RetrievedSimilar == retr_pc = "returned_similar"

SortedDescending(docs) ==
    \A i, j \in 1..Len(docs) : i < j => docs[i].similarity >= docs[j].similarity

\* C12: every list search_by_company_name and search_similar_documents
\* return is in descending order of the final similarity and has at most
\* top_k elements.
C12_SortedAndAtMostTopK ==
    (Retrieved \/ RetrievedSimilar) =>
        /\ SortedDescending(retr_result.docs)
        /\ Len(retr_result.docs) <= retr_request.top_k

\* C12 witness: search_similar_documents returns top_k = 2 documents out
\* of a larger collection in another order than the collection answered:
\* the query boost has lifted the farther document over the nearer one
C12_Witness ==
    /\ RetrievedSimilar
    /\ Len(corpus) > 2
    /\ Len(retr_result.docs) = 2
    /\ retr_result.docs[2].query_relevance = 0
    /\ retr_result.docs[1].query_relevance > 0
    /\ retr_result.docs[1].similarity > retr_result.docs[2].similarity
    /\ 10000 - corpus[1].distance = retr_result.docs[2].similarity

Blended == fus_pc = "blended"

\* what the blend of the step that ran makes of one candidate on its own
BlendedAlone(r) ==
    IF fus_result.step = "search_by_company_name"
    THEN FuseByCompany(<<r>>, fus_request.company_name, 1, 0)[1]
    ELSE _enhance_with_company_relevance(<<r>>, fus_request.company_name)[1]

\* b is a with another metadata company than the one asked for
SameButCompany(a, b) ==
    /\ a.company = fus_request.company_name
    /\ b.company # fus_request.company_name
    /\ b = [a EXCEPT !.company = b.company]

Positions(docs, r) == {k \in 1..Len(docs) : docs[k] = r}

\* C13: of two candidates that differ in the metadata company only, the
\* one whose metadata company equals the company asked for gets a blended
\* similarity at least that of the other, and when both are returned it
\* does not come after the other with a lower score.
C13_ExactCompanyRanksNoLower ==
    Blended =>
        \A i, j \in 1..Len(fus_request.results) :
            LET a == fus_request.results[i]
                b == fus_request.results[j]
            IN  SameButCompany(a, b) =>
                   /\ BlendedAlone(a).similarity >= BlendedAlone(b).similarity
                   /\ \A pa \in Positions(fus_result.docs, BlendedAlone(a)),
                         pb \in Positions(fus_result.docs, BlendedAlone(b)) :
                         \/ pa < pb
                         \/ BlendedAlone(a).similarity = BlendedAlone(b).similarity

\* C13 witness: _enhance_with_company_relevance was given the substring
\* match before the exact match and returns the exact match first
C13_Witness ==
    /\ Blended
    /\ fus_result.step = "_enhance_with_company_relevance"
    /\ Len(fus_request.results) = 2
    /\ SameButCompany(fus_request.results[2], fus_request.results[1])
    /\ fus_request.results[1].company = XinQiangDianZi \o GongSi
    /\ Len(fus_result.docs) = 2
    /\ fus_result.docs[1] = BlendedAlone(fus_request.results[2])
    /\ fus_result.docs[1].similarity > fus_result.docs[2].similarity

Extracted == parts_pc = "returned"

\* C15 (as claimed): for a company name of at least two characters
\* _extract_company_name_parts returns a non-empty list of parts, each of at
\* least two characters, none of them twice, and always the same set for
\* the same name.
C15_PartsNonEmptyLongDistinct ==
    (Extracted /\ Len(parts_name) >= 2) =>
        /\ parts_list # <<>>
        /\ \A k \in 1..Len(parts_list) : Len(parts_list[k]) >= 2
        /\ \A k, m \in 1..Len(parts_list) :
              parts_list[k] = parts_list[m] => k = m
        /\ Range(parts_list) = _extract_company_name_parts(parts_name)

Filtered == fus_pc = "filtered"

\* the candidates that contain a keyword of the scenario
WithKeyword ==
    {i \in 1..Len(fus_request.results) :
        keyword_score(fus_request.results[i],
                      scenario_keywords(fus_request.scenario)) > 0}

\* keeping only those would remove more than 70% of the candidates
RemovesMoreThan70 ==
    10 * (Len(fus_request.results) - Cardinality(WithKeyword))
        > 7 * Len(fus_request.results)

\* C20 (as claimed): when keeping only the candidates with a scenario
\* keyword would remove more than 70% of them, _filter_by_scenario_relevance
\* returns every input candidate, with its boosted score; a non-empty input
\* never gives an empty output.
C20_SkippedFilterReturnsAll ==
    Filtered =>
        /\ (scenario_keywords(fus_request.scenario) # <<>> /\ RemovesMoreThan70) =>
              /\ Len(fus_result.docs) = Len(fus_request.results)
              /\ \A i \in 1..Len(fus_request.results) :
                    /\ fus_result.docs[i].content = fus_request.results[i].content
                    /\ fus_result.docs[i].similarity =
                          fus_request.results[i].similarity
                          + scenario_boost(keyword_score(fus_request.results[i],
                                scenario_keywords(fus_request.scenario)))
        /\ fus_request.results # <<>> => fus_result.docs # <<>>

\* C21 (as claimed): every result search_by_company_name and
\* search_similar_documents return carries a similarity within [0, 1]: the
\* semantic strategy reports 1 - distance clamped to [0, 1], and the score
\* stays within [0, 1] after the company blend, the scenario boost and the
\* query-term boost.
C21_SimilarityWithinUnitInterval ==
    (Retrieved \/ RetrievedSimilar) =>
        \A i \in 1..Len(retr_result.docs) :
            /\ retr_result.docs[i].similarity >= 0
            /\ retr_result.docs[i].similarity <= 10000

(***************************************************************************)
(* Claims about QwenWebSearcher                                            *)
(***************************************************************************)
Searched == ws_pc = "returned"

\* the collaborator failed: the search call raised, or it answered with a
\* non-success status and the fallback call raised or did so too
CollaboratorFailed ==
    \/ ws_trace.response.status = 0
    \/ /\ ws_trace.response.status = 500
       /\ ws_trace.fallback_response.status \in {0, 500}

\* C9 (as claimed): search never raises, and when the collaborator fails
\* (exception, or non-success status also after the fallback search) it
\* returns the empty list.
C9_FailureReturnsEmptyList ==
    (Searched /\ CollaboratorFailed) =>
        /\ ~ws_result.raised
        /\ ws_result.docs = <<>>


\* C14 (as claimed): a cache hit for (query, company_name, scenario) returns
\* only results that an earlier search with the identical query, the
\* identical company_name and the identical scenario stored.
C14_CacheHitOnlyForSameRequest ==
    (Searched /\ ws_trace.cache_hit) =>
        \A i \in 1..Len(ws_result.docs) :
            /\ ws_result.docs[i].search_query = ws_request.query
            /\ ws_result.docs[i].company_name = ws_request.company_name
            /\ ws_result.docs[i].scenario = ws_request.scenario

\* C28 (as claimed): the cache only holds results of a successful
\* collaborator search; what the mock or the fallback path produced is never
\* stored, so an identical search does not get mock results from the cache.
C28_CacheHoldsOnlySearchResults ==
    /\ \A key \in DOMAIN ws_cache :
          \A i \in 1..Len(ws_cache[key]) : ws_cache[key][i].origin \in {"web", "text"}
    /\ (Searched /\ ws_trace.cache_hit) =>
          \A i \in 1..Len(ws_result.docs) : ws_result.docs[i].origin # "mock"
(***************************************************************************)
(* Claims about LLMExtractor                                               *)
(***************************************************************************)
ExtractorReturned == ie_pc = "returned"

\* the model call failed, answered a non-success status, or answered a text
\* that cannot be parsed as JSON
ExtractionFailed ==
    \/ ie_response.raises
    \/ ie_response.status_code # 200
    \/ ie_response.content.kind \in {"no_json", "bad_json"}

\* C30 (as claimed): extract_company_and_scenario never raises; when the
\* model call fails, answers a non-success status or answers text that is
\* not JSON, it returns a fallback result with the fields company_code,
\* company_name, scenario and scenario_name.
C30_ExtractNeverRaises ==
    ExtractorReturned =>
        /\ ~ie_result.raised
        /\ ExtractionFailed =>
              /\ ie_result.source = "fallback"
              /\ {"company_code", "company_name", "scenario",
                  "scenario_name"} \subseteq ie_result.keys

====
